---- MODULE Spec2Model ----
(***************************************************************************)
(* Model of scripts/search-public-posts.js (src/unnamed/part_005): the     *)
(* multi-account searchPublicPosts scanner.  The module holds              *)
(*   - the persistence merge rules (channel_messages, message_metrics),    *)
(*   - the update correlator (attachUpdateProcessor) with the in-flight    *)
(*     set, the album keeper and the snapshot write-avoidance map,         *)
(*   - the account selection policy (findNextFreeAccountIndex,             *)
(*     findStarAccountIndex),                                              *)
(*   - the paginated sweep (runSearchLoop) and the scheduler (main).       *)
(*                                                                         *)
(* Numeric columns hold an integer or NULL.  Of a post row only the six    *)
(* engagement counters are kept; link, date, content type and text are not *)
(* read by any operation modelled here.                                    *)
(***************************************************************************)
EXTENDS Integers, Sequences, FiniteSets, TLC

(***************************************************************************)
(* Bounds of the model.                                                    *)
(***************************************************************************)
MaxCount == 2        \* largest view / forward / reply count the platform reports
MaxReactions == 1    \* longest reactions list of an interaction_info
MaxPickAccounts == 2 \* largest registry handed to the selection functions
MaxMsg == 2          \* message ids of the posts the platform can deliver
MaxPageLen == 2      \* most posts in one page of searchPublicPosts
MaxRuns == 2         \* most rows of the runs table
MaxNow == 1          \* the clock runs from 0 to MaxNow
MaxAccounts == 2     \* most accounts in the registry
MaxMeta == 2         \* largest count and largest linked chat id of the chat metadata
MaxSwitchAccounts == 3 \* accounts of the registry in which a switch has a choice

\* SQL NULL, JS null / undefined / a non-finite number.
NULL == -1

IsFinite(x) == x # NULL

CounterFields ==
  {"view_count", "forward_count", "reply_count",
   "reactions_total", "reactions_paid", "reactions_free"}

VARIABLES
  \* ---- persistence store and module-level maps ----
  posts,            \* channel_messages: <<chat_id, message_id>> -> counters
  metrics,          \* message_metrics: <<run_id, chat_id, message_id>> -> ts and counters
  lastMetrics,      \* lastMetrics: <<chat_id, message_id>> -> counters of the last snapshot
  albumKeeper,      \* albumKeeper: <<chat_id, album_id>> -> message_id
  allowedMessages,  \* allowedMessages, as a set of <<chat_id, message_id>>
  targets,          \* targets: the chat ids discovered by the sweeps
  channels,         \* public_search: chat_id -> the numeric columns of the chat metadata
  chatUsernames,    \* chatUsernames: chat_id -> a public handle or NULL
  getChatCalls,     \* per chat id: the getChat requests issued so far (history)
  currentRunId,     \* currentRunId, NULL when no Run row could be created
  runsCreated,      \* number of rows of the runs table (the last AUTOINCREMENT id)
  shuttingDown,     \* shuttingDown
  stopRequested,    \* stopRequested of main
  pc,               \* the await the scheduler stands at
  cancelSleep,      \* cancelSleep is set: a delayWithStop timer is pending
  exitCode,         \* process.exitCode
  \* ---- main ----
  accountIndex,     \* accountIndex, 0-based
  session,          \* the session in `client`: "none", "live" or "closed"
  handlerOn,        \* detachUpdates holds a subscription of the update handler
  orphans,          \* [live, undestroyed]: sessions dropped without close or destroy
  switchTo,         \* the index an account switch in progress goes to, or NULL
  useStars,         \* useStars
  preLimits,        \* preLimits
  starBalance,      \* starBalance
  limitsZero,       \* limitsZero
  savedAccounts,    \* the registry file as writeAccounts left it
  runs,             \* the runs table: run_id -> [limits_json (not null), limits_exceeded],
                    \* and per row `updates`, the updateRun calls that reached it (history)
  \* ---- locals of runSearchLoop ----
  offset,           \* offset: the cursor passed to the next search call
  page,             \* page
  total,            \* total
  limitsExceeded,   \* limitsExceeded
  balanceLow,       \* balanceLow
  starCount,        \* options.starCount
  \* ---- history of the inputs (not program state) ----
  lastMissing,      \* the counters that were missing in the last upserted row
  seenMax,          \* per post and counter: the largest non-missing value merged so far
  evalLog,          \* the rows upserted by the last step: [key, counters, wrote, by]
  prevDelivered,    \* per post: the counters of the row upserted last
  streakWrites,     \* per post: snapshot writes since the delivered counters last changed
  lastStep,         \* [kind, key]: the last step taken and the post of its event
  sweepCalls,       \* the search calls of the current sweep: [offset, star_count]
  sweepPages,       \* the pages they returned: [next_offset, has_next_offset, count, exceeded]
  surfaced,         \* the posts the pages of the current sweep held, as <<chat_id, message_id>>
  trail,            \* what the scheduler did since its last mode decision
  \* ---- account registry and clock ----
  accounts,         \* the registry: a sequence of account records
  now,              \* Date.now()
  \* ---- inputs and results of the selection functions ----
  pickArgs,         \* [fromIndex, minCost]
  pickOut           \* [op, idx, visited]: the last selection made

upsertVars == <<posts, lastMissing, seenMax>>
pickVars == <<accounts, now, pickArgs, pickOut>>
metaVars == <<channels, chatUsernames, getChatCalls>>
storeVars == <<metrics, lastMetrics, albumKeeper, allowedMessages, targets, metaVars>>
driverVars == <<currentRunId, runsCreated, shuttingDown, stopRequested, pc>>
historyVars == <<evalLog, prevDelivered, streakWrites, lastStep>>
sweepVars == <<offset, page, total, limitsExceeded, balanceLow, starCount,
               sweepCalls, sweepPages, surfaced>>
procVars == <<cancelSleep, exitCode>>
sessionVars == <<session, handlerOn, orphans>>
flagVars == <<shuttingDown, stopRequested>>
runVars == <<currentRunId, runsCreated, runs>>
localVars == <<offset, page, total, limitsExceeded, balanceLow>>
callVars == <<sweepCalls, sweepPages, surfaced>>
quotaVars == <<preLimits, starBalance, limitsZero, useStars>>
pickIO == <<pickArgs, pickOut>>
dataVars == <<upsertVars, storeVars, prevDelivered, streakWrites>>
mainVars == <<accountIndex, switchTo, useStars, preLimits, starBalance, limitsZero,
              savedAccounts, runs, trail>>

vars == <<posts, metrics, lastMetrics, albumKeeper, allowedMessages, targets,
          channels, chatUsernames, getChatCalls,
          currentRunId, runsCreated, shuttingDown, stopRequested, pc,
          cancelSleep, exitCode, accountIndex, session, handlerOn, orphans, switchTo,
          useStars, preLimits, starBalance, limitsZero, savedAccounts, runs, trail,
          offset, page, total, limitsExceeded, balanceLow, starCount,
          lastMissing, seenMax, evalLog, prevDelivered, streakWrites, lastStep,
          sweepCalls, sweepPages, surfaced,
          accounts, now, pickArgs, pickOut>>

----------------------------------------------------------------------------
(***************************************************************************)
(* Message mapping: aggregateReactions, mapMessageToJson,                  *)
(* normalizeMessageRow.                                                    *)
(***************************************************************************)

\* One entry of interaction_info.reactions.reactions.
ReactionEntries ==
  { [paid |-> p, total_count |-> c] : p \in BOOLEAN, c \in {1} }

RECURSIVE SumReactions(_, _)
SumReactions(reactions, paid) ==
  IF reactions = <<>> THEN 0
  ELSE LET r == Head(reactions)
       IN (IF IsFinite(r.total_count) /\ r.paid = paid THEN r.total_count ELSE 0)
          + SumReactions(Tail(reactions), paid)

RECURSIVE HasReactionData(_)
HasReactionData(reactions) ==
  IF reactions = <<>> THEN FALSE
  ELSE IsFinite(Head(reactions).total_count) \/ HasReactionData(Tail(reactions))

NoReactions == [total |-> NULL, paid |-> NULL, free |-> NULL]

\* The reactions of an interaction_info: [is_array, list]; is_array is FALSE
\* when interaction_info.reactions.reactions is absent or not an array.
aggregateReactions(reactions) ==
  IF ~reactions.is_array THEN NoReactions
  ELSE LET paid == SumReactions(reactions.list, TRUE)
           free == SumReactions(reactions.list, FALSE)
       IN IF ~HasReactionData(reactions.list) \/ paid + free <= 0
          THEN NoReactions
          ELSE [total |-> paid + free, paid |-> paid, free |-> free]

PositiveOrNull(v) == IF IsFinite(v) /\ v > 0 THEN v ELSE NULL

\* A platform message: [id, chat_id, media_album_id, view_count, forward_count,
\* reply_count, reactions]; the interaction_info is flattened into the record.
\* mapMessageToJson returns null for a message without a numeric id, and
\* normalizeMessage returns null for that and for a non-finite chat id.
IsNormalizable(message) ==
  IsFinite(message.id) /\ IsFinite(message.chat_id)

mapMessageToJson(message) ==
  LET reactions == aggregateReactions(message.reactions)
  IN [message_id |-> message.id,
      chat_id |-> message.chat_id,
      forward_count |-> PositiveOrNull(message.forward_count),
      reply_count |-> PositiveOrNull(message.reply_count),
      view_count |-> PositiveOrNull(message.view_count),
      reactions |-> reactions]

\* Defined for the messages that satisfy IsNormalizable.
normalizeMessage(message) == mapMessageToJson(message)

FiniteOrNull(v) == IF IsFinite(v) THEN v ELSE NULL

normalizeMessageRow(row) ==
  [chat_id |-> row.chat_id,
   message_id |-> row.message_id,
   view_count |-> FiniteOrNull(row.view_count),
   forward_count |-> FiniteOrNull(row.forward_count),
   reply_count |-> FiniteOrNull(row.reply_count),
   reactions_total |-> FiniteOrNull(row.reactions_total),
   reactions_paid |-> FiniteOrNull(row.reactions_paid),
   reactions_free |-> FiniteOrNull(row.reactions_free)]

\* The row upsertMessages builds from a normalized message.
MessageRow(normalized) ==
  normalizeMessageRow(
    [chat_id |-> normalized.chat_id,
     message_id |-> normalized.message_id,
     view_count |-> normalized.view_count,
     forward_count |-> normalized.forward_count,
     reply_count |-> normalized.reply_count,
     reactions_total |-> normalized.reactions.total,
     reactions_paid |-> normalized.reactions.paid,
     reactions_free |-> normalized.reactions.free])

RowKey(row) == <<row.chat_id, row.message_id>>

----------------------------------------------------------------------------
(***************************************************************************)
(* channel_messages: INSERT ... ON CONFLICT DO UPDATE.                     *)
(***************************************************************************)

\* A mutation of MergeMax: the incoming value wins whenever it is present.
MergeLastWins(old, new) ==
  IF new # NULL THEN new ELSE old

\* CASE WHEN old IS NULL THEN new WHEN new > COALESCE(old, -1) THEN new ELSE old END.
\* A comparison with a NULL operand is not true in SQL.
MergeMax(old, new) ==
  IF old = NULL THEN new
  ELSE IF new # NULL /\ new > old THEN new
  ELSE old

Counters(row) == [f \in CounterFields |-> row[f]]

MergeCounters(old, new) == [f \in CounterFields |-> MergeMax(old[f], new[f])]

Put(table, key, value) ==
  [k \in (DOMAIN table) \cup {key} |-> IF k = key THEN value ELSE table[k]]

\* A mutation of upsertMessage: the delivered row replaces the stored one.
upsertMessageOverwrite(table, row) == Put(table, RowKey(row), Counters(row))

upsertMessage(table, row) ==
  LET key == RowKey(row)
  IN IF key \in DOMAIN table
     THEN Put(table, key, MergeCounters(table[key], Counters(row)))
     ELSE Put(table, key, Counters(row))

----------------------------------------------------------------------------
(***************************************************************************)
(* message_metrics, the album keeper, the in-flight set and                *)
(* upsertMessages.                                                         *)
(***************************************************************************)

\* PRIMARY KEY(run_id, chat_id, message_id) of message_metrics.
MetricKey(snapshot) == <<snapshot.run_id, snapshot.chat_id, snapshot.message_id>>

\* INSERT INTO message_metrics ... ON CONFLICT(run_id, chat_id, message_id)
\* DO UPDATE SET with the same CASE per counter; ts is not in the SET list.
upsertMessageMetric(table, snapshot) ==
  LET key == MetricKey(snapshot)
  IN IF key \in DOMAIN table
     THEN Put(table, key,
              [ts |-> table[key].ts] @@ MergeCounters(Counters(table[key]), Counters(snapshot)))
     ELSE Put(table, key, [ts |-> snapshot.ts] @@ Counters(snapshot))

HasAlbumKey(message) ==
  IsFinite(message.media_album_id) /\ IsFinite(message.chat_id) /\ IsFinite(message.id)

AlbumKey(message) == <<message.chat_id, message.media_album_id>>

\* The value isAlbumDuplicate returns.
isAlbumDuplicate(keeper, message) ==
  /\ HasAlbumKey(message)
  /\ AlbumKey(message) \in DOMAIN keeper
  /\ keeper[AlbumKey(message)] # message.id

\* The album keeper after isAlbumDuplicate: the first message id seen is kept.
KeeperAfter(keeper, message) ==
  IF HasAlbumKey(message) /\ AlbumKey(message) \notin DOMAIN keeper
  THEN Put(keeper, AlbumKey(message), message.id)
  ELSE keeper

RECURSIVE allowMessages(_, _)
allowMessages(allowed, messages) ==
  IF messages = <<>> THEN allowed
  ELSE LET msg == Head(messages)
       IN allowMessages(
            IF IsFinite(msg.chat_id) /\ IsFinite(msg.id)
            THEN allowed \cup {<<msg.chat_id, msg.id>>}
            ELSE allowed,
            Tail(messages))

isMessageAllowed(allowed, chatId, messageId) == <<chatId, messageId>> \in allowed

\* A mutation of SnapshotDiffers: every delivery is taken for a change.
SnapshotAlwaysDiffers(last, key, counters) == TRUE

\* The condition under which upsertMessages writes a metric snapshot: no
\* snapshot of the post in lastMetrics, or one of the six counters differs.
SnapshotDiffers(last, key, counters) ==
  \/ key \notin DOMAIN last
  \/ \E f \in CounterFields : last[key][f] # counters[f]

\* The body of the for loop of upsertMessages for one message.  `st` is
\* [posts, metrics, lastMetrics, albumKeeper, log, ts]; log collects, for
\* the rows upserted, whether a snapshot was written; ts is
\* Math.floor(Date.now() / 1000), in units of the clock.
UpsertOne(st, message, runId) ==
  LET keeper == KeeperAfter(st.albumKeeper, message)
  IN IF isAlbumDuplicate(st.albumKeeper, message)
     THEN st
     ELSE IF ~IsNormalizable(message)
     THEN [st EXCEPT !.albumKeeper = keeper]
     ELSE LET row == MessageRow(normalizeMessage(message))
              key == RowKey(row)
              snapshot == [run_id |-> runId, ts |-> st.ts] @@ row
              write == runId # NULL /\ SnapshotDiffers(st.lastMetrics, key, Counters(row))
          IN [posts |-> upsertMessage(st.posts, row),
              metrics |-> IF write THEN upsertMessageMetric(st.metrics, snapshot)
                          ELSE st.metrics,
              lastMetrics |-> IF write THEN Put(st.lastMetrics, key, Counters(snapshot))
                              ELSE st.lastMetrics,
              albumKeeper |-> keeper,
              log |-> Append(st.log, [key |-> key, counters |-> Counters(row),
                                      wrote |-> write]),
              ts |-> st.ts]

\* A mutation of upsertMessages: without a Run row nothing is persisted.
RECURSIVE upsertMessagesNeedsRun(_, _, _)
upsertMessagesNeedsRun(st, messages, runId) ==
  IF runId = NULL \/ messages = <<>> THEN st
  ELSE upsertMessagesNeedsRun(UpsertOne(st, Head(messages), runId), Tail(messages), runId)

RECURSIVE upsertMessages(_, _, _)
upsertMessages(st, messages, runId) ==
  IF messages = <<>> THEN st
  ELSE upsertMessages(UpsertOne(st, Head(messages), runId), Tail(messages), runId)

----------------------------------------------------------------------------
(***************************************************************************)
(* The update handler of attachUpdateProcessor.  An update is              *)
(* [chat_id, message_interaction_info, message] and, for a metadata event, *)
(* also [supergroup_id, chat, supergroup, supergroup_full_info]; an absent *)
(* number is NULL, an absent object <<>> and a present one a one-element   *)
(* sequence.  The message parts of the handler are HandleUpdate, its       *)
(* metadata parts HandleMeta and HandleMemo below.                         *)
(***************************************************************************)

\* Chat ids of supergroups are -(ChatIdBase + supergroup id); the base
\* stands for 1000000000000.
ChatIdBase == 10

chatIdToChannelId(chatId) ==
  LET abs == IF chatId < 0 THEN 0 - chatId ELSE chatId
  IN IF ~IsFinite(chatId) \/ abs < ChatIdBase THEN NULL ELSE abs - ChatIdBase

toChatIdFromSupergroup(supergroupId) ==
  IF ~IsFinite(supergroupId) THEN NULL ELSE 0 - ChatIdBase - supergroupId

\* update.supergroup_id and the objects update.chat, update.supergroup and
\* update.supergroup_full_info, absent in a message event.
NumberOf(update, field) == IF field \in DOMAIN update THEN update[field] ELSE NULL
ObjectOf(update, field) == IF field \in DOMAIN update THEN update[field] ELSE <<>>

extractChatIdFromUpdate(update) ==
  IF IsFinite(update.chat_id) THEN update.chat_id
  ELSE IF update.message # <<>> /\ IsFinite(update.message[1].chat_id)
       THEN update.message[1].chat_id
  ELSE IF IsFinite(NumberOf(update, "supergroup_id"))
       THEN toChatIdFromSupergroup(NumberOf(update, "supergroup_id"))
  ELSE IF ObjectOf(update, "supergroup") # <<>> /\ IsFinite(ObjectOf(update, "supergroup")[1].id)
       THEN toChatIdFromSupergroup(ObjectOf(update, "supergroup")[1].id)
  ELSE IF ObjectOf(update, "chat") # <<>> /\ IsFinite(ObjectOf(update, "chat")[1].id)
       THEN ObjectOf(update, "chat")[1].id
  ELSE NULL

\* The message the handler builds from a counters-only event: no album id.
FakeMessage(info) ==
  [id |-> info.message_id,
   chat_id |-> info.chat_id,
   media_album_id |-> NULL,
   view_count |-> info.view_count,
   forward_count |-> info.forward_count,
   reply_count |-> info.reply_count,
   reactions |-> info.reactions]

\* A mutation of PassesInFlight: the in-flight set is not consulted.
PassesAlways(allowed, chatId, messageId) == TRUE

\* The in-flight filter of the handler.
PassesInFlight(allowed, chatId, messageId) == isMessageAllowed(allowed, chatId, messageId)

\* The message part of the handler, after the counters-only part.
HandleMessagePart(st, update, allowed, runId) ==
  IF update.message = <<>> THEN st
  ELSE IF ~PassesInFlight(allowed, update.message[1].chat_id, update.message[1].id)
       THEN st
  ELSE upsertMessages(st, update.message, runId)

\* A mutation of IsTargetChat: the set of targets is not consulted.
IsTargetChatAny(tgts, related) == related # NULL

\* The handler goes on only for an update of a discovered target chat.
IsTargetChat(tgts, related) == related # NULL /\ related \in tgts

HandleUpdate(st, update, allowed, tgts, down, runId) ==
  IF down THEN st
  ELSE LET related == extractChatIdFromUpdate(update)
       IN IF ~IsTargetChat(tgts, related) THEN st
          ELSE IF update.message_interaction_info # <<>>
                  /\ IsFinite(update.message_interaction_info[1].message_id)
               THEN LET info == update.message_interaction_info[1]
                    IN IF ~PassesInFlight(allowed, info.chat_id, info.message_id)
                       THEN st
                       ELSE HandleMessagePart(
                              upsertMessages(st, <<FakeMessage(info)>>, runId),
                              update, allowed, runId)
               ELSE HandleMessagePart(st, update, allowed, runId)

----------------------------------------------------------------------------
(***************************************************************************)
(* public_search, the chat metadata table, and the memo of ensureChatMeta. *)
(* A row is the record of its numeric columns and found_messages_count;    *)
(* title, description and active_username are text.  Platform objects      *)
(* carry NULL for an absent or non-finite number and <<>> for a flag that  *)
(* is not a boolean.                                                       *)
(***************************************************************************)

ChannelFields ==
  {"supergroup_id", "boost_level", "date", "has_direct_messages_group", "has_linked_chat",
   "member_count", "direct_messages_chat_id", "gift_count", "linked_chat_id",
   "outgoing_paid_message_star_count"}

\* The columns insertChannel merges with CASE ... WHEN excluded > COALESCE(...).
CaseFields ==
  {"boost_level", "date", "member_count", "gift_count", "outgoing_paid_message_star_count"}

boolToInt(value) == IF value = <<>> THEN NULL ELSE IF value[1] THEN 1 ELSE 0

\* normalizeChannelPatch: every column is present, absent and non-finite
\* values are null; found_messages_count: patch.found_messages_count ?? 0,
\* and no caller passes one.
normalizeChannelPatch(patch) ==
  [f \in ChannelFields |-> IF f \in DOMAIN patch /\ IsFinite(patch[f]) THEN patch[f] ELSE NULL]
    @@ [found_messages_count |-> 0]

\* COALESCE(excluded.col, public_search.col)
Coalesce(old, new) == IF new # NULL THEN new ELSE old

\* ON CONFLICT(chat_id) DO UPDATE SET of insertChannel, per column;
\* found_messages_count is not in the SET list.
MergeChannel(old, new) ==
  [f \in ChannelFields |->
     IF f \in CaseFields THEN MergeMax(old[f], new[f]) ELSE Coalesce(old[f], new[f])]
    @@ [found_messages_count |-> old.found_messages_count]

insertChannel(table, chatId, row) ==
  IF chatId \in DOMAIN table
  THEN Put(table, chatId, MergeChannel(table[chatId], row))
  ELSE Put(table, chatId, row)

upsertChannel(table, patch) ==
  insertChannel(table, patch.chat_id, normalizeChannelPatch(patch))

\* SELECT COUNT(*) FROM channel_messages WHERE chat_id = @chat_id
CountPosts(postsTable, chatId) ==
  Cardinality({ k \in DOMAIN postsTable : k[1] = chatId })

\* updateFoundCount: UPDATE public_search SET found_messages_count = ...
\* WHERE chat_id = @chat_id; no row of the chat, no write.
bumpMessageCount(table, chatId, postsTable) ==
  IF chatId \in DOMAIN table
  THEN [table EXCEPT ![chatId].found_messages_count = CountPosts(postsTable, chatId)]
  ELSE table

\* upsertMessages, its last loop: bumpMessageCount for the chat of every
\* message it wrote; `st` is the store it returned.
RECURSIVE BumpChats(_, _, _)
BumpChats(table, chats, postsTable) ==
  IF chats = {} THEN table
  ELSE LET c == CHOOSE x \in chats : TRUE
       IN BumpChats(bumpMessageCount(table, c, postsTable), chats \ {c}, postsTable)

BumpWritten(table, st) ==
  BumpChats(table, { st.log[i].key[1] : i \in 1 .. Len(st.log) }, st.posts)

\* applyChatToDb, its write to public_search.
applyChatToDb(table, chat) ==
  upsertChannel(table,
    [chat_id |-> chat.id,
     supergroup_id |-> chat.supergroup_id,
     member_count |-> chat.member_count,
     direct_messages_chat_id |-> chat.direct_messages_chat_id,
     linked_chat_id |-> chat.linked_chat_id])

applySupergroupToDb(table, supergroup) ==
  IF toChatIdFromSupergroup(supergroup.id) = NULL THEN table
  ELSE upsertChannel(table,
    [chat_id |-> toChatIdFromSupergroup(supergroup.id),
     supergroup_id |-> supergroup.id,
     boost_level |-> supergroup.boost_level,
     date |-> supergroup.date,
     has_direct_messages_group |-> boolToInt(supergroup.has_direct_messages_group),
     has_linked_chat |-> boolToInt(supergroup.has_linked_chat),
     member_count |-> supergroup.member_count,
     gift_count |-> supergroup.gift_count,
     linked_chat_id |-> supergroup.linked_chat_id,
     outgoing_paid_message_star_count |-> supergroup.outgoing_paid_message_star_count])

applyFullInfoToDb(table, supergroupId, fullInfo) ==
  IF toChatIdFromSupergroup(supergroupId) = NULL THEN table
  ELSE upsertChannel(table,
    [chat_id |-> toChatIdFromSupergroup(supergroupId),
     supergroup_id |-> supergroupId,
     member_count |-> fullInfo.member_count,
     direct_messages_chat_id |-> fullInfo.direct_messages_chat_id,
     gift_count |-> fullInfo.gift_count,
     linked_chat_id |-> fullInfo.linked_chat_id,
     outgoing_paid_message_star_count |-> fullInfo.outgoing_paid_message_star_count])

\* extractUsername of a chat or supergroup object: <<>> for none.
UsernameOf(object) == IF "username" \in DOMAIN object THEN object.username ELSE <<>>

\* The metadata parts of the update handler, their writes to public_search:
\* update.chat, update.supergroup and update.supergroup_full_info in turn.
HandleMeta(table, update, tgts, down) ==
  IF down \/ ~IsTargetChat(tgts, extractChatIdFromUpdate(update)) THEN table
  ELSE LET chat == ObjectOf(update, "chat")
           supergroup == ObjectOf(update, "supergroup")
           fullInfo == ObjectOf(update, "supergroup_full_info")
           afterChat == IF chat # <<>> THEN applyChatToDb(table, chat[1]) ELSE table
           afterSupergroup == IF supergroup # <<>>
                              THEN applySupergroupToDb(afterChat, supergroup[1])
                              ELSE afterChat
       IN IF fullInfo # <<>>
          THEN applyFullInfoToDb(afterSupergroup, NumberOf(update, "supergroup_id"), fullInfo[1])
          ELSE afterSupergroup

\* The metadata parts of the update handler, their chatUsernames.set.
HandleMemo(memo, update, tgts, down) ==
  IF down \/ ~IsTargetChat(tgts, extractChatIdFromUpdate(update)) THEN memo
  ELSE LET chat == ObjectOf(update, "chat")
           supergroup == ObjectOf(update, "supergroup")
           afterChat == IF chat # <<>> /\ UsernameOf(chat[1]) # <<>>
                        THEN Put(memo, chat[1].id, UsernameOf(chat[1]))
                        ELSE memo
       IN IF supergroup # <<>> /\ UsernameOf(supergroup[1]) # <<>>
             /\ toChatIdFromSupergroup(supergroup[1].id) # NULL
          THEN Put(afterChat, toChatIdFromSupergroup(supergroup[1].id), UsernameOf(supergroup[1]))
          ELSE afterChat

\* What getChat can do: return a chat with a public handle, return one
\* without, or fail.
FetchOutcomes == {"handle", "none", "failed"}

\* The chat getChat returns for a chat the search surfaced; its numeric
\* metadata is absent.
FetchedChat(chatId) ==
  [id |-> chatId, supergroup_id |-> NULL, member_count |-> NULL,
   direct_messages_chat_id |-> NULL, linked_chat_id |-> NULL]

\* A mutation of MemoAfterFetch: only a known handle is remembered.
MemoOnlyHandles(memo, chatId, username) ==
  IF username # <<>> THEN Put(memo, chatId, username) ELSE memo

\* chatUsernames.set(chatId, username); username is <<>> for null.
MemoAfterFetch(memo, chatId, username) == Put(memo, chatId, username)

\* ensureChatMeta for one chat, its awaits included.  `meta` is
\* [channels, chatUsernames, getChatCalls].  getSupergroup is asked only
\* when chatIdToChannelId is not null.
ensureChatMeta(meta, chatId, outcome) ==
  IF ~IsFinite(chatId) \/ chatId \in DOMAIN meta.chatUsernames THEN meta
  ELSE LET calls == IF chatId \in DOMAIN meta.getChatCalls
                    THEN meta.getChatCalls[chatId] ELSE 0
           username == IF outcome = "handle" THEN <<"handle">> ELSE <<>>
       IN [channels |-> IF outcome = "failed" THEN meta.channels
                        ELSE applyChatToDb(meta.channels, FetchedChat(chatId)),
           chatUsernames |-> MemoAfterFetch(meta.chatUsernames, chatId, username),
           getChatCalls |-> Put(meta.getChatCalls, chatId, calls + 1)]

\* chatIdsToFetch of runSearchLoop.
chatIdsToFetch(memo, messages) ==
  { messages[i].chat_id : i \in 1 .. Len(messages) } \ ((DOMAIN memo) \cup {NULL})

RECURSIVE EnsureAll(_, _, _)
\* for (const chatId of chatIdsToFetch) await ensureChatMeta(...)
EnsureAll(meta, chats, outcomes) ==
  IF chats = {} THEN meta
  ELSE LET c == CHOOSE x \in chats : \A y \in chats : x <= y
       IN EnsureAll(ensureChatMeta(meta, c, outcomes[c]), chats \ {c}, outcomes)

----------------------------------------------------------------------------
(***************************************************************************)
(* Account selection policy.  An account is                                *)
(* [remaining_free, free_at, star_cost_per_query, star_balance,            *)
(*  skip_stars]; free_at is a point of the clock `now` or NULL.  The       *)
(* accounts of the registry of main carry name, database_directory and     *)
(* files_directory as well.  Indexes are 0-based as in the source.         *)
(***************************************************************************)

STAR_SPEND == 10

At(accs, idx) == accs[idx + 1]

\* A mutation of isFreeReady: a known free_at counts whether or not it has passed.
isFreeReadyIgnoringClock(account, clock) ==
  \/ IsFinite(account.remaining_free) /\ account.remaining_free > 0
  \/ IsFinite(account.free_at)

isFreeReady(account, clock) ==
  \/ IsFinite(account.remaining_free) /\ account.remaining_free > 0
  \/ IsFinite(account.free_at) /\ account.free_at <= clock

\* The for loop of findNextFreeAccountIndex from `step` on; `visited` are the
\* indexes tested so far.
RECURSIVE ScanFree(_, _, _, _, _)
ScanFree(accs, fromIndex, clock, step, visited) ==
  IF step >= Len(accs) THEN [idx |-> NULL, visited |-> visited]
  ELSE LET idx == (fromIndex + step) % Len(accs)
       IN IF isFreeReady(At(accs, idx), clock)
          THEN [idx |-> idx, visited |-> Append(visited, idx)]
          ELSE ScanFree(accs, fromIndex, clock, step + 1, Append(visited, idx))

findNextFreeAccountIndex(accs, fromIndex, clock) ==
  IF Len(accs) = 0 THEN NULL
  ELSE ScanFree(accs, fromIndex, clock, 0, <<>>).idx

\* A mutation of IsStarAccount: the skip_stars flag is not looked at.
IsStarAccountIgnoringSkip(acc, minCost) ==
  /\ IsFinite(acc.star_cost_per_query)
  /\ acc.star_cost_per_query >= minCost
  /\ IsFinite(acc.star_balance)
  /\ acc.star_balance > 0

\* The test of one account in findStarAccountIndex.
IsStarAccount(acc, minCost) ==
  /\ ~acc.skip_stars
  /\ IsFinite(acc.star_cost_per_query)
  /\ acc.star_cost_per_query >= minCost
  /\ IsFinite(acc.star_balance)
  /\ acc.star_balance > 0

RECURSIVE ScanStar(_, _, _)
ScanStar(accs, minCost, i) ==
  IF i >= Len(accs) THEN NULL
  ELSE IF IsStarAccount(At(accs, i), minCost) THEN i
  ELSE ScanStar(accs, minCost, i + 1)

findStarAccountIndex(accs, minCost) == ScanStar(accs, minCost, 0)

----------------------------------------------------------------------------
(***************************************************************************)
(* SpecUpsert: a sequence of dbOps.upsertMessage calls for one post, the   *)
(* rows built from platform messages as upsertMessages builds them.        *)
(***************************************************************************)

CountValues == {NULL} \cup (0 .. MaxCount)

RECURSIVE SeqsUpTo(_, _)
SeqsUpTo(S, n) ==
  IF n = 0 THEN {<<>>}
  ELSE LET shorter == SeqsUpTo(S, n - 1)
       IN shorter \cup { Append(s, x) : s \in { t \in shorter : Len(t) = n - 1 }, x \in S }

ReactionLists ==
  {[is_array |-> FALSE, list |-> <<>>]}
    \cup { [is_array |-> TRUE, list |-> l] : l \in SeqsUpTo(ReactionEntries, MaxReactions) }

UpsertChat == 1
UpsertMessageId == 1

UpsertMessagesIn ==
  { [id |-> UpsertMessageId, chat_id |-> UpsertChat, media_album_id |-> NULL,
     view_count |-> v, forward_count |-> f, reply_count |-> r, reactions |-> x] :
    v \in CountValues, f \in CountValues, r \in CountValues, x \in ReactionLists }

\* The rows the platform messages of one post are turned into.
UpsertRowsIn ==
  { MessageRow(normalizeMessage(message)) : message \in UpsertMessagesIn }

\* The module-level maps and the tables right after initDb on a new file.
StoreEmpty ==
  /\ metrics = <<>>
  /\ lastMetrics = <<>>
  /\ albumKeeper = <<>>
  /\ allowedMessages = {}
  /\ targets = {}
  /\ channels = <<>>
  /\ chatUsernames = <<>>
  /\ getChatCalls = <<>>
  /\ evalLog = {}
  /\ prevDelivered = <<>>
  /\ streakWrites = <<>>
  /\ lastStep = [kind |-> "init", key |-> <<>>]

DriverIdle ==
  /\ currentRunId = NULL
  /\ runsCreated = 0
  /\ shuttingDown = FALSE
  /\ stopRequested = FALSE
  /\ pc = "idle"
  /\ cancelSleep = FALSE
  /\ exitCode = 0

NoLimits ==
  [ok |-> FALSE, remaining_free_query_count |-> NULL, next_free_query_in |-> NULL,
   star_count |-> NULL]

NoTrail ==
  [low |-> NULL, sleeps |-> 0, switched |-> FALSE, cut |-> FALSE, fatal |-> FALSE,
   swept |-> FALSE]

\* main before the scheduler loop, with one session and its handler.
MainIdle ==
  /\ accountIndex = 0
  /\ session = "live"
  /\ handlerOn = TRUE
  /\ orphans = [live |-> 0, undestroyed |-> 0]
  /\ switchTo = NULL
  /\ useStars = FALSE
  /\ preLimits = NoLimits
  /\ starBalance = NULL
  /\ limitsZero = FALSE
  /\ savedAccounts = <<>>
  /\ runs = <<>>
  /\ trail = NoTrail

\* The locals of runSearchLoop at its entry.
SweepEntry ==
  /\ offset = ""
  /\ page = 0
  /\ total = 0
  /\ limitsExceeded = FALSE
  /\ balanceLow = FALSE
  /\ sweepCalls = <<>>
  /\ sweepPages = <<>>
  /\ surfaced = {}

PickIdle ==
  /\ accounts = <<>>
  /\ now = 0
  /\ pickArgs = [fromIndex |-> 0, minCost |-> 0]
  /\ pickOut = [op |-> "none", idx |-> NULL, visited |-> <<>>]

NoneSeen == [f \in CounterFields |-> NULL]

\* The mathematical maximum of the values merged so far, NULL while none was present.
SeenAfter(seen, value) ==
  IF value = NULL THEN seen
  ELSE IF seen = NULL THEN value
  ELSE CHOOSE m \in {seen, value} : \A x \in {seen, value} : m >= x

InitUpsert ==
  /\ posts = <<>>
  /\ lastMissing = {}
  /\ seenMax = NoneSeen
  /\ PickIdle
  /\ StoreEmpty
  /\ DriverIdle
  /\ SweepEntry
  /\ MainIdle
  /\ starCount = 0

UpsertRow ==
  \E row \in UpsertRowsIn :
    /\ posts' = upsertMessage(posts, row)
    /\ lastMissing' = { f \in CounterFields : row[f] = NULL }
    /\ seenMax' = [f \in CounterFields |-> SeenAfter(seenMax[f], row[f])]
    /\ UNCHANGED <<pickVars, storeVars, driverVars, historyVars, sweepVars, procVars, sessionVars, mainVars>>

NextUpsert == UpsertRow

SpecUpsert == InitUpsert /\ [][NextUpsert]_vars

UpsertKey == <<UpsertChat, UpsertMessageId>>

\* C1: after any sequence of upserts of one post every persisted counter
\* equals the maximum of the non-missing values merged so far (NULL while
\* none was present), and an upsert whose value for a counter is missing
\* leaves that persisted counter unchanged.
C1_PersistedIsMax ==
  /\ [](UpsertKey \in DOMAIN posts =>
          \A f \in CounterFields : posts[UpsertKey][f] = seenMax[f])
  /\ [][\A f \in CounterFields :
          (UpsertKey \in DOMAIN posts /\ f \in lastMissing')
            => posts'[UpsertKey][f] = posts[UpsertKey][f]]_vars

\* C39: in every persisted post row whose three reaction counters are
\* known, reactions_total is the sum of reactions_paid and reactions_free.
C39_ReactionsAddUp ==
  \A k \in DOMAIN posts :
    (posts[k].reactions_total # NULL /\ posts[k].reactions_paid # NULL
       /\ posts[k].reactions_free # NULL)
      => posts[k].reactions_total = posts[k].reactions_paid + posts[k].reactions_free

\* The largest values were merged, and the last upsert carried no view count
\* and no reactions: the persisted counters are still the largest.
C1_Witness ==
  /\ UpsertKey \in DOMAIN posts
  /\ {"view_count", "reactions_total"} \subseteq lastMissing
  /\ posts[UpsertKey].view_count = MaxCount
  /\ posts[UpsertKey].forward_count = 1
  /\ posts[UpsertKey].reactions_paid = MaxReactions

----------------------------------------------------------------------------
(***************************************************************************)
(* SpecPick: findNextFreeAccountIndex and findStarAccountIndex applied to  *)
(* a registry snapshot drawn from a bounded set.                           *)
(***************************************************************************)

PickNow == 1

FreeQuotas ==
  { [remaining_free |-> 1, free_at |-> NULL],
    [remaining_free |-> 0, free_at |-> PickNow - 1],
    [remaining_free |-> 0, free_at |-> PickNow],
    [remaining_free |-> 0, free_at |-> PickNow + 1],
    [remaining_free |-> NULL, free_at |-> NULL] }

PaidQuotas ==
  { [star_cost_per_query |-> NULL, star_balance |-> NULL, skip_stars |-> FALSE],
    [star_cost_per_query |-> STAR_SPEND, star_balance |-> 100, skip_stars |-> FALSE],
    [star_cost_per_query |-> STAR_SPEND - 5, star_balance |-> 100, skip_stars |-> FALSE],
    [star_cost_per_query |-> STAR_SPEND, star_balance |-> 0, skip_stars |-> FALSE],
    [star_cost_per_query |-> STAR_SPEND, star_balance |-> 100, skip_stars |-> TRUE] }

Account(free, paid) ==
  [remaining_free |-> free.remaining_free,
   free_at |-> free.free_at,
   star_cost_per_query |-> paid.star_cost_per_query,
   star_balance |-> paid.star_balance,
   skip_stars |-> paid.skip_stars]

PickAccounts == { Account(f, p) : f \in FreeQuotas, p \in PaidQuotas }

InitPick ==
  /\ posts = <<>>
  /\ lastMissing = {}
  /\ seenMax = NoneSeen
  /\ StoreEmpty
  /\ DriverIdle
  /\ SweepEntry
  /\ MainIdle
  /\ starCount = 0
  /\ accounts \in SeqsUpTo(PickAccounts, MaxPickAccounts)
  /\ now = PickNow
  /\ pickArgs \in [fromIndex : 0 .. Len(accounts), minCost : {STAR_SPEND}]
  /\ pickOut = [op |-> "none", idx |-> NULL, visited |-> <<>>]

PickFree ==
  /\ pickOut.op = "none"
  /\ pickOut' =
       [op |-> "free",
        idx |-> findNextFreeAccountIndex(accounts, pickArgs.fromIndex, now),
        visited |-> IF Len(accounts) = 0 THEN <<>>
                    ELSE ScanFree(accounts, pickArgs.fromIndex, now, 0, <<>>).visited]
  /\ UNCHANGED <<accounts, now, pickArgs, upsertVars, storeVars, driverVars, historyVars,
                 sweepVars, procVars, sessionVars, mainVars>>

PickPaid ==
  /\ pickOut.op = "none"
  /\ pickOut' =
       [op |-> "paid",
        idx |-> findStarAccountIndex(accounts, pickArgs.minCost),
        visited |-> <<>>]
  /\ UNCHANGED <<accounts, now, pickArgs, upsertVars, storeVars, driverVars, historyVars,
                 sweepVars, procVars, sessionVars, mainVars>>

NextPick == PickFree \/ PickPaid

SpecPick == InitPick /\ [][NextPick]_vars

Indexes(accs) == 0 .. (Len(accs) - 1)

\* remaining_free > 0, or a known free_at that is not in the future.
QualifiesFree(acc) ==
  \/ acc.remaining_free # NULL /\ acc.remaining_free > 0
  \/ acc.free_at # NULL /\ ~(acc.free_at > now)

\* The k-th index of the cyclic order that starts at fromIndex.
CyclicAt(fromIndex, k, count) == (fromIndex + k) % count

ExampleA == [remaining_free |-> 0, free_at |-> PickNow + 60,
             star_cost_per_query |-> NULL, star_balance |-> NULL, skip_stars |-> FALSE]
ExampleB == [remaining_free |-> 5, free_at |-> NULL,
             star_cost_per_query |-> NULL, star_balance |-> NULL, skip_stars |-> FALSE]
ExampleBExhausted == [ExampleB EXCEPT !.remaining_free = 0, !.free_at = PickNow + 60]
ExampleC == [remaining_free |-> NULL, free_at |-> NULL,
             star_cost_per_query |-> 10, star_balance |-> 100, skip_stars |-> FALSE]

\* C4: findNextFreeAccountIndex tests the accounts in cyclic order from
\* fromIndex, each at most once and all of them when none qualifies, and
\* returns the first one whose remaining_free > 0 or whose free_at is not in
\* the future, none when no account qualifies; on [A, B, C] from A it
\* returns B, and none when B is exhausted too.
C4_PickFreeCyclicFirst ==
  /\ pickOut.op = "free" =>
       LET count == Len(accounts)
           v == pickOut.visited
       IN /\ \A k \in 1 .. Len(v) : v[k] = CyclicAt(pickArgs.fromIndex, k - 1, count)
          /\ Len(v) <= count
          /\ \A k \in 1 .. Len(v) : \A l \in 1 .. Len(v) : v[k] = v[l] => k = l
          /\ \A k \in 1 .. (Len(v) - 1) : ~QualifiesFree(At(accounts, v[k]))
          /\ IF \E i \in Indexes(accounts) : QualifiesFree(At(accounts, i))
             THEN /\ pickOut.idx = v[Len(v)]
                  /\ QualifiesFree(At(accounts, pickOut.idx))
             ELSE /\ pickOut.idx = NULL
                  /\ { v[k] : k \in 1 .. Len(v) } = Indexes(accounts)
  /\ findNextFreeAccountIndex(<<ExampleA, ExampleB, ExampleC>>, 0, PickNow) = 1
  /\ findNextFreeAccountIndex(<<ExampleA, ExampleBExhausted, ExampleC>>, 0, PickNow) = NULL

\* The scan started at the last position, wrapped past the end and returned
\* an account before the start whose free_at is exactly now, after testing
\* one whose free_at is in the future.
C4_Witness ==
  /\ pickOut.op = "free"
  /\ Len(accounts) = MaxPickAccounts
  /\ pickArgs.fromIndex = Len(accounts) - 1
  /\ pickOut.idx = 0
  /\ At(accounts, 0).free_at = now
  /\ At(accounts, pickArgs.fromIndex).free_at = now + 1

\* C5: findStarAccountIndex returns the lowest index of an account that is
\* not flagged skip_stars and has a known cost >= minCost and a known
\* balance > 0, none when there is no such account; an account flagged
\* skip_stars is never returned.
C5_PickPaidLowest ==
  pickOut.op = "paid" =>
    LET ok(i) ==
          LET acc == At(accounts, i)
          IN /\ acc.skip_stars = FALSE
             /\ acc.star_cost_per_query # NULL
             /\ acc.star_cost_per_query >= pickArgs.minCost
             /\ acc.star_balance # NULL
             /\ acc.star_balance > 0
    IN /\ pickOut.idx # NULL =>
            /\ pickOut.idx \in Indexes(accounts)
            /\ ok(pickOut.idx)
            /\ \A i \in Indexes(accounts) : i < pickOut.idx => ~ok(i)
            /\ ~At(accounts, pickOut.idx).skip_stars
       /\ pickOut.idx = NULL => \A i \in Indexes(accounts) : ~ok(i)

\* The first account has cost and balance but is flagged skip_stars; the
\* second one is returned.
C5_Witness ==
  /\ pickOut.op = "paid"
  /\ Len(accounts) >= 2
  /\ At(accounts, 0).skip_stars
  /\ At(accounts, 0).star_balance > 0
  /\ At(accounts, 0).star_cost_per_query >= pickArgs.minCost
  /\ pickOut.idx = 1

----------------------------------------------------------------------------
(***************************************************************************)
(* SpecMetrics and SpecCorrelator: the sweep pages and the update events   *)
(* of one session, written through upsertMessages.  The scheduler is       *)
(* reduced to the steps that touch the store: the creation of a Run, the   *)
(* search calls of a sweep and the stop signal.  SpecMetrics delivers one  *)
(* post with changing counters, SpecCorrelator the posts of one album.     *)
(***************************************************************************)

MsgIds == 1 .. MaxMsg
SweepChats == {1}       \* the chat whose posts the search returns
StrayChats == {2}       \* a chat no sweep returns
AlbumSize == 2

\* Messages 1 .. AlbumSize of a chat form one album.
AlbumOf(id) == IF id <= AlbumSize THEN 1 ELSE NULL

NotAnArray == [is_array |-> FALSE, list |-> <<>>]

\* The interaction_info values the platform reports.
DataInteractions ==
  { [view_count |-> 1, forward_count |-> NULL, reply_count |-> NULL, reactions |-> NotAnArray],
    [view_count |-> 1, forward_count |-> 1, reply_count |-> NULL, reactions |-> NotAnArray],
    [view_count |-> 2, forward_count |-> NULL, reply_count |-> NULL, reactions |-> NotAnArray] }

PlatformMessage(chat, id, info) ==
  [id |-> id, chat_id |-> chat, media_album_id |-> AlbumOf(id),
   view_count |-> info.view_count, forward_count |-> info.forward_count,
   reply_count |-> info.reply_count, reactions |-> info.reactions]

Messages(chats, ids, infos) ==
  { PlatformMessage(c, id, info) : c \in chats, id \in ids, info \in infos }

DistinctIds(messages) ==
  \A i \in 1 .. Len(messages) : \A j \in 1 .. Len(messages) :
    messages[i].id = messages[j].id => i = j

\* A page holds each post at most once.
Pages(messages) == { batch \in SeqsUpTo(messages, MaxPageLen) : DistinctIds(batch) }

CountersOnlyUpdates(chats, ids, infos) ==
  { [chat_id |-> c,
     message_interaction_info |->
       << [chat_id |-> c, message_id |-> id,
           view_count |-> info.view_count, forward_count |-> info.forward_count,
           reply_count |-> info.reply_count, reactions |-> info.reactions] >>,
     message |-> <<>>] :
    c \in chats, id \in ids, info \in infos }

FullPostUpdates(chats, ids, infos) ==
  { [chat_id |-> NULL,
     message_interaction_info |-> <<>>,
     message |-> << m >>] : m \in Messages(chats, ids, infos) }

Updates(chats, ids, infos) ==
  CountersOnlyUpdates(chats, ids, infos) \cup FullPostUpdates(chats, ids, infos)

\* SpecMetrics: one post outside the album, every interaction_info.
MetricIds == {AlbumSize + 1}
MetricPages == Pages(Messages(SweepChats, MetricIds, DataInteractions))
MetricUpdates == Updates(SweepChats, MetricIds, DataInteractions)

\* SpecCorrelator: the posts of the album and a stray chat, two interaction_infos.
CorrelatorInteractions == { info \in DataInteractions : info.forward_count = NULL /\ info.view_count = 1 }
CorrelatorPages == Pages(Messages(SweepChats, MsgIds, CorrelatorInteractions))
CorrelatorUpdates == Updates(SweepChats \cup StrayChats, MsgIds, CorrelatorInteractions)

\* The post an update is about.
UpdateKey(update) ==
  IF update.message_interaction_info # <<>>
  THEN <<update.message_interaction_info[1].chat_id,
         update.message_interaction_info[1].message_id>>
  ELSE IF update.message # <<>> THEN <<update.message[1].chat_id, update.message[1].id>>
  ELSE <<extractChatIdFromUpdate(update), NULL>>

Store == [posts |-> posts, metrics |-> metrics, lastMetrics |-> lastMetrics,
          albumKeeper |-> albumKeeper, log |-> <<>>, ts |-> now]

LogSet(log) == { log[i] : i \in 1 .. Len(log) }

RECURSIVE HistoryAfter(_, _)
\* prevDelivered and streakWrites after the rows of `log`, as
\* [prev, writes].
HistoryAfter(h, log) ==
  IF log = <<>> THEN h
  ELSE LET e == Head(log)
           same == e.key \in DOMAIN h.prev /\ h.prev[e.key] = e.counters
           before == IF same THEN h.writes[e.key] ELSE 0
       IN HistoryAfter(
            [prev |-> Put(h.prev, e.key, e.counters),
             writes |-> Put(h.writes, e.key, before + (IF e.wrote THEN 1 ELSE 0))],
            Tail(log))

\* runSearchLoop: targets.add(chatId) and targets.add(sgChatId) for the
\* posts of a page.
TargetsOfPage(messages) ==
  ({ messages[i].chat_id : i \in 1 .. Len(messages) }
     \cup { toChatIdFromSupergroup(chatIdToChannelId(messages[i].chat_id)) :
              i \in 1 .. Len(messages) }) \ {NULL}

\* runSearchLoop: the chats of a page that the memo does not hold are
\* fetched, one getChat each, with outcomes out of `fetches`; public_search
\* is then as upsertMessages of the page leaves it.
MetaFetched(messages, fetches) ==
  \E outcomes \in [chatIdsToFetch(chatUsernames, messages) -> fetches] :
    \E meta \in {EnsureAll([channels |-> channels, chatUsernames |-> chatUsernames,
                             getChatCalls |-> getChatCalls],
                            chatIdsToFetch(chatUsernames, messages), outcomes)} :
      /\ channels' = BumpWritten(meta.channels, upsertMessages(Store, messages, currentRunId))
      /\ chatUsernames' = meta.chatUsernames
      /\ getChatCalls' = meta.getChatCalls

\* The store and the history after upsertMessages returned `st`.
StoreBecomes(st) ==
  /\ posts' = st.posts
  /\ metrics' = st.metrics
  /\ lastMetrics' = st.lastMetrics
  /\ albumKeeper' = st.albumKeeper
  /\ evalLog' = LogSet(st.log)
  /\ \E h \in {HistoryAfter([prev |-> prevDelivered, writes |-> streakWrites], st.log)} :
       /\ prevDelivered' = h.prev
       /\ streakWrites' = h.writes

InitData ==
  /\ posts = <<>>
  /\ lastMissing = {}
  /\ seenMax = NoneSeen
  /\ StoreEmpty
  /\ DriverIdle
  /\ PickIdle
  /\ SweepEntry
  /\ MainIdle
  /\ starCount = 0

\* The row insertRun writes: limits_json null, limits_exceeded 0.
NewRun == [limits_json |-> FALSE, limits_exceeded |-> 0, updates |-> 0]

\* A mutation of InsertedRun: currentRunId is not reset before insertRun.
InsertedRunKeepsId(ok) ==
  /\ currentRunId' = IF ok THEN runsCreated + 1 ELSE currentRunId
  /\ runsCreated' = IF ok THEN runsCreated + 1 ELSE runsCreated
  /\ runs' = IF ok THEN Put(runs, runsCreated + 1, NewRun) ELSE runs

\* main: currentRunId = null, then dbOps.insertRun; `ok` is FALSE when
\* insertRun throws.  Run ids are the rowids 1, 2, ...
InsertedRun(ok) ==
  /\ currentRunId' = IF ok THEN runsCreated + 1 ELSE NULL
  /\ runsCreated' = IF ok THEN runsCreated + 1 ELSE runsCreated
  /\ runs' = IF ok THEN Put(runs, runsCreated + 1, NewRun) ELSE runs

\* A step that touches neither the tables nor the module-level maps.
StoreQuiet ==
  /\ lastStep' = [kind |-> "step", key |-> <<>>]
  /\ evalLog' = {}
  /\ UNCHANGED dataVars

\* Date.now() advances.
Tick ==
  /\ pc # "done"
  /\ now < MaxNow
  /\ now' = now + 1
  /\ StoreQuiet
  /\ UNCHANGED <<flagVars, runVars, pc, localVars, starCount, callVars, procVars, sessionVars,
                 accountIndex, switchTo, quotaVars, savedAccounts, trail, accounts, pickIO>>

\* main: the start of a sweep, up to the call of runSearchLoop.
StartRun ==
  /\ pc = "idle"
  /\ ~stopRequested
  /\ \E ok \in BOOLEAN :
       /\ ok => runsCreated < MaxRuns
       /\ InsertedRun(ok)
  /\ pc' = "loop"
  /\ surfaced' = {}
  /\ lastStep' = [kind |-> "run", key |-> <<>>]
  /\ evalLog' = {}
  /\ UNCHANGED <<posts, storeVars, shuttingDown, stopRequested, prevDelivered,
                 streakWrites, upsertVars, pickVars, localVars, starCount, sweepCalls,
                 sweepPages, procVars, sessionVars,
                 accountIndex, switchTo, useStars, preLimits, starBalance, limitsZero,
                 savedAccounts, trail>>

\* runSearchLoop: the loop condition holds and searchPublicPosts is invoked.
IssueSearch ==
  /\ pc = "loop"
  /\ ~stopRequested
  /\ pc' = "call"
  /\ lastStep' = [kind |-> "issue", key |-> <<>>]
  /\ evalLog' = {}
  /\ UNCHANGED <<posts, storeVars, currentRunId, runsCreated, shuttingDown,
                 stopRequested, prevDelivered, streakWrites, upsertVars, pickVars,
                 sweepVars, procVars, sessionVars, mainVars>>

\* runSearchLoop: a page arrives; its chats become targets, its posts are
\* marked in flight and upserted.  `more` is FALSE when the sweep ends with
\* this page.
SweepPage(pages, fetches) ==
  /\ pc = "call"
  /\ \E batch \in pages, more \in BOOLEAN :
       /\ targets' = targets \cup TargetsOfPage(batch)
       /\ MetaFetched(batch, fetches)
       /\ allowedMessages' = allowMessages(allowedMessages, batch)
       /\ surfaced' = allowMessages(surfaced, batch)
       /\ \E st \in {upsertMessages(Store, batch, currentRunId)} : StoreBecomes(st)
       /\ pc' = IF more THEN "loop" ELSE "idle"
  /\ lastStep' = [kind |-> "page", key |-> <<>>]
  /\ UNCHANGED <<currentRunId, runsCreated, shuttingDown, stopRequested,
                 lastMissing, seenMax, pickVars, localVars, starCount, sweepCalls,
                 sweepPages, procVars, sessionVars, mainVars>>

\* An account switch between two sweeps, as one step: the handler is
\* detached, the session closed, accountIndex moves, a session is created
\* for the new account, the handler attached and login awaited.
SwitchSession ==
  /\ pc = "idle"
  /\ ~stopRequested
  /\ accountIndex' = (accountIndex + 1) % MaxAccounts
  /\ lastStep' = [kind |-> "switch", key |-> <<>>]
  /\ evalLog' = {}
  /\ UNCHANGED <<posts, storeVars, driverVars, prevDelivered, streakWrites, upsertVars,
                 pickVars, sweepVars, procVars, sessionVars, switchTo, quotaVars,
                 savedAccounts, runs, trail>>

\* runSearchLoop: the loop condition fails after a stop.
EndSweep ==
  /\ pc = "loop"
  /\ stopRequested
  /\ pc' = "idle"
  /\ lastStep' = [kind |-> "end", key |-> <<>>]
  /\ evalLog' = {}
  /\ UNCHANGED <<posts, storeVars, currentRunId, runsCreated, shuttingDown,
                 stopRequested, prevDelivered, streakWrites, upsertVars, pickVars,
                 sweepVars, procVars, sessionVars, mainVars>>

\* The session delivers an update to the attached handler.
DeliverUpdate(updates) ==
  /\ handlerOn
  /\ session = "live"
  /\ \E update \in updates :
       /\ \E st \in {HandleUpdate(Store, update, allowedMessages, targets,
                                 shuttingDown, currentRunId)} : StoreBecomes(st)
       /\ channels' = BumpWritten(HandleMeta(channels, update, targets, shuttingDown),
                                  HandleUpdate(Store, update, allowedMessages, targets,
                                               shuttingDown, currentRunId))
       /\ chatUsernames' = HandleMemo(chatUsernames, update, targets, shuttingDown)
       /\ lastStep' = [kind |-> "update", key |-> UpdateKey(update)]
  /\ UNCHANGED <<allowedMessages, targets, getChatCalls, driverVars, lastMissing, seenMax,
                 pickVars, sweepVars, procVars, sessionVars, mainVars>>

\* A mutation of CancelledSleep: the pending timer is left to run.
SleepNotCancelled(pending) == pending

\* stopHandler: cancelSleep() clears the timer, resets cancelSleep and
\* resolves the delay.
CancelledSleep(pending) == FALSE

\* A mutation of StopSignal: the stop handler leaves shuttingDown alone.
StopSignalHandlerLive ==
  /\ ~stopRequested
  /\ pc # "done"
  /\ stopRequested' = TRUE
  /\ shuttingDown' = shuttingDown
  /\ cancelSleep' = CancelledSleep(cancelSleep)
  /\ lastStep' = [kind |-> "stop", key |-> <<>>]
  /\ evalLog' = {}
  /\ trail' = [trail EXCEPT !.cut = cancelSleep]
  /\ UNCHANGED <<posts, storeVars, currentRunId, runsCreated, pc,
                 prevDelivered, streakWrites, upsertVars, pickVars, sweepVars, exitCode,
                 sessionVars, accountIndex, switchTo, useStars, preLimits, starBalance,
                 limitsZero, savedAccounts, runs>>

\* stopHandler, on SIGINT or SIGTERM.
StopSignal ==
  /\ ~stopRequested
  /\ pc # "done"
  /\ stopRequested' = TRUE
  /\ shuttingDown' = TRUE
  /\ cancelSleep' = CancelledSleep(cancelSleep)
  /\ lastStep' = [kind |-> "stop", key |-> <<>>]
  /\ evalLog' = {}
  /\ trail' = [trail EXCEPT !.cut = cancelSleep]
  /\ UNCHANGED <<posts, storeVars, currentRunId, runsCreated, pc,
                 prevDelivered, streakWrites, upsertVars, pickVars, sweepVars, exitCode,
                 sessionVars, accountIndex, switchTo, useStars, preLimits, starBalance,
                 limitsZero, savedAccounts, runs>>

NextMetrics ==
  \/ StartRun
  \/ IssueSearch
  \/ SweepPage(MetricPages, {"handle"})
  \/ EndSweep
  \/ DeliverUpdate(MetricUpdates)
  \/ StopSignal
  \/ Tick

SpecMetrics == InitData /\ [][NextMetrics]_vars

NextCorrelator ==
  \/ StartRun
  \/ IssueSearch
  \/ SweepPage(CorrelatorPages, FetchOutcomes)
  \/ SwitchSession
  \/ EndSweep
  \/ DeliverUpdate(CorrelatorUpdates)
  \/ StopSignal

SpecCorrelator == InitData /\ [][NextCorrelator]_vars

\* C2: a metric snapshot of a post is written only when lastMetrics holds no
\* snapshot of it or one of the six counters differs from that snapshot;
\* and while the same counters are delivered for a post again and again,
\* by pages or by events, in one run or in later ones, at most one snapshot
\* is written.
C2_SnapshotOnlyOnChange ==
  /\ [][\A e \in evalLog' :
          e.wrote => \/ e.key \notin DOMAIN lastMetrics
                     \/ \E f \in CounterFields : lastMetrics[e.key][f] # e.counters[f]]_vars
  /\ [](\A key \in DOMAIN streakWrites : streakWrites[key] <= 1)

\* The counters recorded in run 1 were delivered again by an event in run 2:
\* no snapshot row exists for run 2.
C2_Witness ==
  /\ lastStep.kind = "update"
  /\ currentRunId = 2
  /\ \E e \in evalLog :
       /\ ~e.wrote
       /\ streakWrites[e.key] = 1
       /\ <<1, e.key[1], e.key[2]>> \in DOMAIN metrics
       /\ <<2, e.key[1], e.key[2]>> \notin DOMAIN metrics
       /\ lastMetrics[e.key] = e.counters

\* C16: a metric snapshot row, once written, keeps its counters and its
\* capture time and is never removed; and a snapshot written for a post
\* that already has a row of the same run with another capture time becomes
\* a row of its own.
C16_SnapshotImmutable ==
  /\ [][\A k \in DOMAIN metrics : k \in DOMAIN metrics' /\ metrics'[k] = metrics[k]]_vars
  /\ [][\A e \in evalLog' :
          (/\ e.wrote
           /\ <<currentRunId, e.key[1], e.key[2]>> \in DOMAIN metrics
           /\ metrics[<<currentRunId, e.key[1], e.key[2]>>].ts # now)
            => Cardinality(DOMAIN metrics') > Cardinality(DOMAIN metrics)]_vars

\* The post row a snapshot row belongs to.
PostOf(k) == <<k[2], k[3]>>

\* C38: every metric snapshot row belongs to a persisted post, and each of
\* its known counters is known in the post row and does not exceed it.
C38_SnapshotWithinPost ==
  \A k \in DOMAIN metrics :
    /\ PostOf(k) \in DOMAIN posts
    /\ \A f \in CounterFields :
         metrics[k][f] # NULL
           => (posts[PostOf(k)][f] # NULL /\ metrics[k][f] <= posts[PostOf(k)][f])

\* After a correlator event, a post has a snapshot row of one Run below its
\* latest-state row in some counter, and the snapshot of the last delivery
\* was below the post row as well: the deliveries did not come in
\* ascending order.
C38_Witness ==
  /\ lastStep.kind = "update"
  /\ \E k \in DOMAIN metrics : \E f \in CounterFields :
       /\ metrics[k][f] # NULL
       /\ metrics[k][f] < posts[PostOf(k)][f]
       /\ lastMetrics[PostOf(k)][f] # NULL
       /\ lastMetrics[PostOf(k)][f] < posts[PostOf(k)][f]

\* The snapshot rows a step inserts or changes.
WrittenSnapshots ==
  { k \in DOMAIN metrics' : k \notin DOMAIN metrics \/ metrics'[k] # metrics[k] }

\* C35: a metric snapshot row is written only with the run id of the Run
\* created last, whose row is in the runs table; a sweep whose insertRun
\* failed runs with no current Run, and while there is no current Run
\* neither a page nor an event writes a snapshot.
C35_SnapshotsOfCurrentRun ==
  /\ [][\A k \in WrittenSnapshots :
          /\ k[1] = currentRunId'
          /\ k[1] = runsCreated'
          /\ k[1] \in DOMAIN runs']_vars
  /\ [][(pc = "idle" /\ pc' = "loop")
          => currentRunId' = (IF runsCreated' > runsCreated THEN runsCreated' ELSE NULL)]_vars
  /\ [][currentRunId' = NULL => metrics' = metrics]_vars
  /\ [](currentRunId \in {NULL, runsCreated})

\* In a sweep whose insertRun failed, after the sweep of Run 1, an event
\* delivered counters that differ from the last snapshot of the post: no
\* snapshot was written, and every snapshot row belongs to Run 1.
C35_Witness ==
  /\ lastStep.kind = "update"
  /\ pc \in {"loop", "call"}
  /\ currentRunId = NULL
  /\ runsCreated = 1
  /\ metrics # <<>>
  /\ \A k \in DOMAIN metrics : k[1] = 1
  /\ \E e \in evalLog :
       ~e.wrote /\ e.key \in DOMAIN lastMetrics /\ lastMetrics[e.key] # e.counters

PersistedKeys ==
  (DOMAIN posts) \cup { <<m[2], m[3]>> : m \in DOMAIN metrics }

\* C3: of the messages of one chat that share an album id only the one seen
\* first (the one the album keeper holds) has a row in the posts table or in
\* the metric snapshots.
C3_OnlyFirstSeenPersisted ==
  \A album \in DOMAIN albumKeeper :
    \A key \in PersistedKeys :
      (key[1] = album[1] /\ AlbumOf(key[2]) = album[2]) => key[2] = albumKeeper[album]

\* C10: an update about a post that is not in the in-flight set when it is
\* handled leaves the posts table and the metric snapshots unchanged.
C10_OnlyInFlightEventsWrite ==
  [][(lastStep'.kind = "update" /\ lastStep'.key \notin allowedMessages)
       => (posts' = posts /\ metrics' = metrics)]_vars

\* An update about a post of a target chat arrived while the handler was
\* live and the post was not in flight; other posts are persisted.
C10_Witness ==
  /\ lastStep.kind = "update"
  /\ lastStep.key \notin allowedMessages
  /\ lastStep.key[1] \in targets
  /\ ~shuttingDown
  /\ currentRunId # NULL
  /\ posts # <<>>
  /\ lastStep.key \notin DOMAIN posts

\* C18: getChat is requested at most once per chat id, over all sweeps and
\* account switches: a request is made only for a chat the memo does not
\* hold, every request leaves the chat in the memo, with or without a
\* handle, and the memo never loses a chat.
C18_GetChatOncePerChat ==
  /\ [](\A c \in DOMAIN getChatCalls : getChatCalls[c] <= 1)
  /\ [][\A c \in DOMAIN getChatCalls' :
          (c \notin DOMAIN getChatCalls \/ getChatCalls'[c] # getChatCalls[c])
            => (c \notin DOMAIN chatUsernames /\ c \in DOMAIN chatUsernames')]_vars
  /\ [][\A c \in DOMAIN chatUsernames : c \in DOMAIN chatUsernames']_vars

\* The getChat request for chat 1 failed in the first sweep; after an
\* account switch a page of the second sweep held posts of chat 1 again and
\* no second request was made.
C18_Witness ==
  /\ lastStep.kind = "page"
  /\ currentRunId = 2
  /\ accountIndex = 1
  /\ \E key \in surfaced : key[1] = 1
  /\ getChatCalls = (1 :> 1)
  /\ chatUsernames = (1 :> <<>>)
  /\ channels = <<>>

\* C11: while a sweep runs the in-flight set holds only the posts its own
\* pages returned, and an update about a post that only an earlier sweep
\* returned leaves the posts table and the metric snapshots unchanged.
C11_InFlightOnlyCurrentSweep ==
  /\ [](pc \in {"loop", "call"} => allowedMessages \subseteq surfaced)
  /\ [][(lastStep'.kind = "update" /\ pc \in {"loop", "call"}
          /\ lastStep'.key \notin surfaced)
         => (posts' = posts /\ metrics' = metrics)]_vars

----------------------------------------------------------------------------
(***************************************************************************)
(* runSearchLoop.  A step runs from one await to the next; pc names the    *)
(* await the scheduler stands at.  A searchPublicPosts response is         *)
(* [messages, next_offset, has_next_offset, are_limits_exceeded];          *)
(* has_next_offset is FALSE when next_offset is absent or not a string.    *)
(***************************************************************************)

MaxPages == 3        \* most search calls of one sweep


\* A mutation of delayWithStop: the stop signal is not looked at.
delayIgnoringStop(stopped) == TRUE

\* delayWithStop: TRUE when the timer is set, FALSE when the delay returns
\* at once because the stop signal was already received.
delayWithStop(stopped) == ~stopped

SearchResponses(pages, cursors) ==
  { res \in [messages : pages, next_offset : cursors \cup {""},
             has_next_offset : BOOLEAN, are_limits_exceeded : BOOLEAN] :
      ~res.has_next_offset => res.next_offset = "" }

\* The negation of the test that ends the loop after a page.
HasCursor(res) == res.has_next_offset /\ res.next_offset # ""

\* A mutation of NextOffset: every call starts from the first page.
RestartOffset(res) == ""

\* offset = res.next_offset
NextOffset(res) == res.next_offset

SearchCall == [offset |-> offset, star_count |-> starCount]

\* while (!stopSignal()): the loop ends, or the inter-page delay begins, or
\* the first searchPublicPosts call is made.
SweepLoop ==
  /\ pc = "sw_loop"
  /\ IF stopRequested
     THEN pc' = "post_sweep" /\ UNCHANGED <<cancelSleep, sweepCalls>>
     ELSE IF page > 0
     THEN /\ pc' = "page_delay"
          /\ cancelSleep' = delayWithStop(stopRequested)
          /\ UNCHANGED sweepCalls
     ELSE /\ pc' = "searching"
          /\ sweepCalls' = Append(sweepCalls, SearchCall)
          /\ UNCHANGED cancelSleep
  /\ StoreQuiet
  /\ UNCHANGED <<flagVars, runVars, localVars, starCount, sweepPages, surfaced, exitCode, sessionVars,
                 accountIndex, switchTo, quotaVars, savedAccounts, trail, accounts, now,
                 pickIO>>

\* The inter-page delay is over, by its timer or by the stop signal: the
\* next searchPublicPosts call is made.
PageDelayOver ==
  /\ pc = "page_delay"
  /\ ~cancelSleep
  /\ pc' = "searching"
  /\ sweepCalls' = Append(sweepCalls, SearchCall)
  /\ StoreQuiet
  /\ UNCHANGED <<flagVars, runVars, localVars, starCount, sweepPages, surfaced, procVars, sessionVars,
                 accountIndex, switchTo, quotaVars, savedAccounts, trail, accounts, now,
                 pickIO>>

\* A mutation of PageEndsSweep: only the cursor is looked at.
PageEndsOnCursor(res) == ~HasCursor(res)

\* The two breaks after a page: are_limits_exceeded, then a cursor that is
\* absent, not a string or empty.
PageEndsSweep(res) == res.are_limits_exceeded \/ ~HasCursor(res)

\* A page arrives: its chats become targets, its posts are marked in flight
\* and upserted, then the exhaustion flag and the cursor are looked at.
SearchPage(responses, fetches) ==
  /\ pc = "searching"
  /\ \E res \in responses :
       /\ Len(sweepCalls) >= MaxPages => (res.are_limits_exceeded \/ ~HasCursor(res))
       /\ targets' = targets \cup TargetsOfPage(res.messages)
       /\ MetaFetched(res.messages, fetches)
       /\ allowedMessages' = allowMessages(allowedMessages, res.messages)
       /\ surfaced' = allowMessages(surfaced, res.messages)
       /\ \E st \in {upsertMessages(Store, res.messages, currentRunId)} : StoreBecomes(st)
       /\ total' = total + Len(res.messages)
       /\ sweepPages' = Append(sweepPages,
                          [next_offset |-> res.next_offset,
                           has_next_offset |-> res.has_next_offset,
                           count |-> Len(res.messages),
                           exceeded |-> res.are_limits_exceeded])
       /\ limitsExceeded' = res.are_limits_exceeded
       /\ IF PageEndsSweep(res)
          THEN pc' = "post_sweep" /\ UNCHANGED <<offset, page>>
          ELSE pc' = "sw_loop" /\ offset' = NextOffset(res) /\ page' = page + 1
  /\ lastStep' = [kind |-> "page", key |-> <<>>]
  /\ UNCHANGED <<lastMissing, seenMax, flagVars, runVars, balanceLow, starCount, sweepCalls,
                 procVars, sessionVars, accountIndex, switchTo, quotaVars, savedAccounts,
                 trail, accounts, now, pickIO>>

\* A mutation of FlaggedAccount: the account is left as it was.
UnflaggedAccount(acc) == acc

\* currentAccount.skip_stars = true
FlaggedAccount(acc) == [acc EXCEPT !.skip_stars = TRUE]

\* searchPublicPosts of a paid sweep fails with BALANCE_TOO_LOW: the loop
\* breaks with balanceLow, and main flags the active account.
SearchBalanceLow ==
  /\ pc = "searching"
  /\ starCount > 0
  /\ balanceLow' = TRUE
  /\ accounts' = [accounts EXCEPT ![accountIndex + 1] = FlaggedAccount(@)]
  /\ trail' = [NoTrail EXCEPT !.low = accountIndex]
  /\ pc' = "post_sweep"
  /\ StoreQuiet
  /\ UNCHANGED <<flagVars, runVars, offset, page, total, limitsExceeded, starCount, callVars,
                 procVars, sessionVars, accountIndex, switchTo, quotaVars, savedAccounts,
                 now, pickIO>>

\* searchPublicPosts fails with any other error: runSearchLoop throws and
\* main catches.
SearchFails ==
  /\ pc = "searching"
  /\ exitCode' = 1
  /\ pc' = "exit"
  /\ trail' = [trail EXCEPT !.fatal = TRUE]
  /\ StoreQuiet
  /\ UNCHANGED <<flagVars, runVars, localVars, starCount, callVars, cancelSleep, sessionVars,
                 accountIndex, switchTo, quotaVars, savedAccounts, accounts, now, pickIO>>

\* The timer of a pending delayWithStop fires.
TimerFires ==
  /\ cancelSleep
  /\ cancelSleep' = FALSE
  /\ StoreQuiet
  /\ UNCHANGED <<flagVars, runVars, pc, localVars, starCount, callVars, exitCode, sessionVars,
                 accountIndex, switchTo, quotaVars, savedAccounts, trail, accounts, now,
                 pickIO>>

(***************************************************************************)
(* SpecSweep: one call of runSearchLoop, free or paid, with the update     *)
(* handler attached and the stop signal possible at every await.           *)
(***************************************************************************)

SweepCursors == {"x1", "x2"}
SweepIds == {AlbumSize + 1, AlbumSize + 2}
SweepInteractions == { info \in DataInteractions : info.forward_count = NULL /\ info.view_count = 1 }
SweepPages == Pages(Messages(SweepChats, SweepIds, SweepInteractions))
SweepResponses == SearchResponses(SweepPages, SweepCursors)
SweepUpdates == CountersOnlyUpdates(SweepChats, {AlbumSize + 1}, SweepInteractions)

\* What sanitizeAccount writes for an account without a name.
DefaultName == <<"default">>

\* The registry `quotas` with the name and the two storage directories of
\* each account, which differ from account to account.
WithIdentity(quotas) ==
  [i \in 1 .. Len(quotas) |->
     quotas[i] @@ [name |-> <<"account", i>>,
                   database_directory |-> <<"db", i>>,
                   files_directory |-> <<"files", i>>]]

PaidAccount ==
  [remaining_free |-> 0, free_at |-> NULL, star_cost_per_query |-> STAR_SPEND,
   star_balance |-> 100, skip_stars |-> FALSE]

InitSweep ==
  /\ posts = <<>>
  /\ lastMissing = {}
  /\ seenMax = NoneSeen
  /\ StoreEmpty
  /\ SweepEntry
  /\ MainIdle
  /\ currentRunId = 1
  /\ runsCreated = 1
  /\ shuttingDown = FALSE
  /\ stopRequested = FALSE
  /\ cancelSleep = FALSE
  /\ exitCode = 0
  /\ pc = "sw_loop"
  /\ starCount \in {0, STAR_SPEND}
  /\ accounts = WithIdentity(<<PaidAccount>>)
  /\ now = 0
  /\ pickArgs = [fromIndex |-> 0, minCost |-> 0]
  /\ pickOut = [op |-> "none", idx |-> NULL, visited |-> <<>>]

NextSweep ==
  \/ SweepLoop
  \/ PageDelayOver
  \/ SearchPage(SweepResponses, {"handle"})
  \/ SearchBalanceLow
  \/ SearchFails
  \/ TimerFires
  \/ StopSignal
  \/ DeliverUpdate(SweepUpdates)

SpecSweep == InitSweep /\ [][NextSweep]_vars

RECURSIVE SumCounts(_)
SumCounts(pages) == IF pages = <<>> THEN 0 ELSE Head(pages).count + SumCounts(Tail(pages))

PageHasCursor(p) == p.has_next_offset /\ p.next_offset # ""

\* C6: the first search call of a sweep passes the empty cursor and every
\* later call passes the cursor the page before it returned; after a page
\* with an empty or absent cursor no call follows; a sweep that ended with
\* neither a stop signal, an exhaustion flag nor an error ended on such a
\* page; total is the sum of the post counts of the pages; so pages with
\* cursors "x1", "x2", "" are fetched by exactly three calls.
C6_CursorChain ==
  /\ Len(sweepCalls) >= 1 => sweepCalls[1].offset = ""
  /\ \A i \in 2 .. Len(sweepCalls) :
       /\ PageHasCursor(sweepPages[i - 1])
       /\ sweepCalls[i].offset = sweepPages[i - 1].next_offset
  /\ \A i \in 1 .. Len(sweepPages) :
       ~PageHasCursor(sweepPages[i]) => Len(sweepCalls) = i
  /\ total = SumCounts(sweepPages)
  /\ (pc = "post_sweep" /\ ~stopRequested /\ ~limitsExceeded /\ ~balanceLow)
       => /\ Len(sweepPages) >= 1
          /\ ~PageHasCursor(sweepPages[Len(sweepPages)])
          /\ Len(sweepCalls) = Len(sweepPages)
  /\ (pc \in {"sw_loop", "page_delay"} /\ Len(sweepPages) >= 1)
       => PageHasCursor(sweepPages[Len(sweepPages)])

\* Pages with cursors "x1", "x2", "" and one, two and no posts were fetched
\* by three calls and the sweep returned with total 3.
C6_Witness ==
  /\ pc = "post_sweep"
  /\ Len(sweepCalls) = 3
  /\ Len(sweepPages) = 3
  /\ <<sweepCalls[1].offset, sweepCalls[2].offset, sweepCalls[3].offset>> = <<"", "x1", "x2">>
  /\ <<sweepPages[1].next_offset, sweepPages[2].next_offset, sweepPages[3].next_offset>>
       = <<"x1", "x2", "">>
  /\ <<sweepPages[1].count, sweepPages[2].count, sweepPages[3].count>> = <<1, 2, 0>>
  /\ total = 3
  /\ ~stopRequested

\* C12: once the stop signal has been received no searchPublicPosts call is
\* started, neither by the loop condition nor after an inter-page delay that
\* the signal cut short.
C12_NoCallAfterStop ==
  [][stopRequested => Len(sweepCalls') <= Len(sweepCalls)]_vars

\* The step is the arrival of a page that signals quota exhaustion.
ExhaustedPageStep ==
  /\ pc = "searching"
  /\ Len(sweepPages') = Len(sweepPages) + 1
  /\ sweepPages'[Len(sweepPages')].exceeded

\* The step is a search call that fails with BALANCE_TOO_LOW.
BalanceLowStep == pc = "searching" /\ balanceLow' /\ ~balanceLow

\* C30: the posts of a page that signals quota exhaustion are marked in
\* flight and persisted, the sweep returns with limitsExceeded set and
\* makes no search call after that page, whatever its cursor; an
\* insufficient-balance error ends the sweep with balanceLow set and
\* without a fatal error, and the posts and the total of the earlier pages
\* stay as they were.
C30_ExhaustionEndsSweep ==
  /\ [][ExhaustedPageStep
          => /\ pc' = "post_sweep"
             /\ limitsExceeded'
             /\ surfaced' \subseteq allowedMessages'
             /\ surfaced' \subseteq DOMAIN posts'
             /\ Cardinality(surfaced') >= sweepPages'[Len(sweepPages')].count
             /\ total' = total + sweepPages'[Len(sweepPages')].count]_vars
  /\ [](\A i \in 1 .. Len(sweepPages) :
          sweepPages[i].exceeded
            => (i = Len(sweepPages) /\ Len(sweepCalls) = i /\ pc = "post_sweep"
                /\ limitsExceeded))
  /\ [][BalanceLowStep
          => /\ pc' = "post_sweep"
             /\ exitCode' = 0
             /\ UNCHANGED <<posts, metrics, allowedMessages, total, sweepPages, sweepCalls>>]_vars
  /\ [](balanceLow => (pc = "post_sweep" /\ surfaced \subseteq DOMAIN posts
                        /\ total = SumCounts(sweepPages)))

\* The second page held two posts, a cursor and the exhaustion flag: the
\* sweep returned after two calls with the posts stored and in flight.
C30_Witness ==
  /\ pc = "post_sweep"
  /\ limitsExceeded
  /\ Len(sweepCalls) = 2
  /\ Len(sweepPages) = 2
  /\ sweepPages[2].exceeded
  /\ PageHasCursor(sweepPages[2])
  /\ sweepPages[2].count = 2
  /\ Cardinality(DOMAIN posts) = 2
  /\ DOMAIN posts \subseteq allowedMessages

----------------------------------------------------------------------------
(***************************************************************************)
(* main: the scheduler loop.  A getPublicPostSearchLimits response is      *)
(* [ok, remaining_free_query_count, next_free_query_in, star_count], ok    *)
(* FALSE when logLimits returns null; a star balance is a number or NULL.  *)
(* The responses below are those of a platform that answers both queries:  *)
(* free quota left, or none left and more after one unit of the clock.     *)
(***************************************************************************)

MaxOrphans == 1      \* most sessions whose close fails

LimitsResponses ==
  { [ok |-> TRUE, remaining_free_query_count |-> q[1], next_free_query_in |-> q[2],
     star_count |-> STAR_SPEND] : q \in {<<1, 0>>, <<0, 1>>} }

BalanceResponses == {100}

getRemainingFree(limits) ==
  IF IsFinite(limits.remaining_free_query_count) THEN limits.remaining_free_query_count ELSE 0

\* computeFreeAt, in units of the clock.
computeFreeAt(limits, clock) ==
  IF IsFinite(limits.next_free_query_in) /\ limits.next_free_query_in > 0
  THEN clock + limits.next_free_query_in
  ELSE NULL

\* A mutation of RefreshedAccount: the stored quota is overwritten also when
\* the limits are unknown.
RefreshedAccountOverwritten(acc, limits, balance, clock) ==
  [acc EXCEPT
     !.remaining_free = limits.remaining_free_query_count,
     !.free_at = computeFreeAt(limits, clock),
     !.star_cost_per_query = IF IsFinite(limits.star_count) THEN limits.star_count ELSE NULL,
     !.star_balance = balance]

\* The flat fields of the active account after the refresh before a sweep.
RefreshedAccount(acc, limits, balance, clock) ==
  [acc EXCEPT
     !.remaining_free = IF IsFinite(limits.remaining_free_query_count)
                        THEN limits.remaining_free_query_count ELSE acc.remaining_free,
     !.free_at = IF computeFreeAt(limits, clock) # NULL
                 THEN computeFreeAt(limits, clock) ELSE acc.free_at,
     !.star_cost_per_query = IF IsFinite(limits.star_count) THEN limits.star_count ELSE NULL,
     !.star_balance = IF IsFinite(balance) THEN balance ELSE acc.star_balance]

\* The flat fields of the active account after the update that follows a sweep.
UpdatedAfterSweep(acc, limits, balance, clock) ==
  [acc EXCEPT
     !.remaining_free = IF IsFinite(limits.remaining_free_query_count)
                        THEN limits.remaining_free_query_count ELSE acc.remaining_free,
     !.free_at = IF computeFreeAt(limits, clock) # NULL
                 THEN computeFreeAt(limits, clock) ELSE acc.free_at,
     !.star_cost_per_query = IF IsFinite(limits.star_count) THEN limits.star_count
                             ELSE acc.star_cost_per_query,
     !.star_balance = IF IsFinite(balance) THEN balance ELSE acc.star_balance]

\* A mutation of sanitizeAccount: the name is not carried over.
sanitizeAccountUnnamed(acc) ==
  [acc EXCEPT
     !.name = DefaultName,
     !.remaining_free = IF IsFinite(acc.remaining_free) THEN acc.remaining_free ELSE 0]

\* A mutation of sanitizeAccount: skip_stars is not copied.
sanitizeAccountNoFlag(acc) ==
  [acc EXCEPT
     !.name = IF acc.name = <<>> THEN DefaultName ELSE acc.name,
     !.remaining_free = IF IsFinite(acc.remaining_free) THEN acc.remaining_free ELSE 0,
     !.skip_stars = FALSE]

\* The record sanitizeAccount returns: name, directories, skip_stars and the
\* known quota fields as they are, "default" for a missing name, 0 for an
\* unknown remaining_free.
sanitizeAccount(acc) ==
  [acc EXCEPT
     !.name = IF acc.name = <<>> THEN DefaultName ELSE acc.name,
     !.remaining_free = IF IsFinite(acc.remaining_free) THEN acc.remaining_free ELSE 0]

\* A mutation of writeAccounts: only the first account is written.
writeAccountsFirstOnly(accs) == <<sanitizeAccount(accs[1])>>

\* The file writeAccounts leaves.
writeAccounts(accs) == [i \in 1 .. Len(accs) |-> sanitizeAccount(accs[i])]

\* What readAccounts returns for a registry file.
readAccounts(file) == [i \in 1 .. Len(file) |-> sanitizeAccount(file[i])]

\* The accounts readAccounts can return.
RegistryAccounts ==
  { [remaining_free |-> f[1], free_at |-> f[2], star_cost_per_query |-> p[1],
     star_balance |-> p[2], skip_stars |-> FALSE] :
    f \in {<<1, NULL>>, <<0, NULL>>, <<0, 1>>}, p \in {<<NULL, NULL>>, <<STAR_SPEND, 100>>} }

\* The registry at start-up.  The quota fields of the first account are
\* overwritten by the first refresh.
Registries ==
  { WithIdentity(r) : r \in
      { q \in SeqsUpTo(RegistryAccounts, MaxAccounts) :
          Len(q) >= 1 /\ q[1].remaining_free = 0 /\ q[1].free_at = NULL
                      /\ q[1].star_cost_per_query = NULL } }

currentAccount == At(accounts, accountIndex)

currentFree ==
  IF IsFinite(currentAccount.remaining_free) THEN currentAccount.remaining_free
  ELSE getRemainingFree(preLimits)

\* A mutation of freeReadyIdx: the other accounts are not asked for free quota.
freeReadyIdxOwnOnly == IF currentFree > 0 THEN accountIndex ELSE NULL

freeReadyIdx ==
  IF currentFree > 0 THEN accountIndex
  ELSE findNextFreeAccountIndex(accounts, accountIndex + 1, now)

freeReady == freeReadyIdx # NULL /\ freeReadyIdx = accountIndex /\ currentFree > 0

\* A mutation of starIdx: any positive cost will do.
starIdxAnyCost == findStarAccountIndex(accounts, 1)

starIdx == findStarAccountIndex(accounts, STAR_SPEND)

\* The test before useStars = true: the cost of the star account is unusable.
StarCostUnusable ==
  LET starCost == IF currentAccount.star_cost_per_query # NULL
                  THEN currentAccount.star_cost_per_query ELSE STAR_SPEND
  IN starCost <= 0

\* A mutation of starCountForRun: a paid sweep always offers STAR_SPEND.
starCountAlwaysSpend(stars) == IF stars THEN STAR_SPEND ELSE 0

\* starCountForRun
starCountForRun(stars) ==
  IF ~stars THEN 0
  ELSE IF currentAccount.star_cost_per_query \notin {NULL, 0}
       THEN currentAccount.star_cost_per_query
  ELSE STAR_SPEND

\* The locals of one loop iteration go out of scope.
IterationEnds ==
  /\ preLimits' = NoLimits
  /\ starBalance' = NULL
  /\ limitsZero' = FALSE
  /\ useStars' = FALSE

\* A mutation of Detached: the subscription stays.
DetachedNot(subscribed) == subscribed

\* detachUpdates(): client.off("update", handler).
Detached(subscribed) == FALSE

\* The first steps of an account switch: detachUpdates(), then client.close()
\* is awaited.
SwitchBegins(idx) ==
  /\ handlerOn' = Detached(handlerOn)
  /\ switchTo' = idx
  /\ pc' = "closing"
  /\ UNCHANGED <<session, orphans>>

\* A mutation of LoopHead: a sleep cycle is spent before the loop goes on.
SleepBeforeLoopHead(stopped) == "inter_sleep"

\* while (!stopRequested), as reached at start-up and by the `continue`
\* that ends an account switch: the await that follows.
LoopHead(stopped) == IF stopped THEN "exit" ELSE "refresh"

\* login(client) resolves: at start-up, or at the end of an account switch
\* followed by `continue`.
LoginDone ==
  /\ pc = "login"
  /\ pc' = LoopHead(stopRequested)
  /\ StoreQuiet
  /\ UNCHANGED <<flagVars, runVars, localVars, starCount, callVars, procVars, sessionVars,
                 accountIndex, switchTo, quotaVars, savedAccounts, trail, accounts, now,
                 pickIO>>

\* login(client) throws.
LoginFails ==
  /\ pc = "login"
  /\ exitCode' = 1
  /\ pc' = "exit"
  /\ StoreQuiet
  /\ UNCHANGED <<flagVars, runVars, localVars, starCount, callVars, cancelSleep, sessionVars,
                 accountIndex, switchTo, quotaVars, savedAccounts, trail, accounts, now,
                 pickIO>>

\* The refresh at the head of the loop: logLimits, getMe and
\* getStarTransactions, the flat fields, writeAccounts.
RefreshQuota(answers, balances) ==
  /\ pc = "refresh"
  /\ \E limits \in answers, balance \in balances :
       /\ preLimits' = limits
       /\ starBalance' = balance
       /\ accounts' = [accounts EXCEPT
                         ![accountIndex + 1] = RefreshedAccount(@, limits, balance, now)]
  /\ savedAccounts' = writeAccounts(accounts')
  /\ pc' = "decide"
  /\ StoreQuiet
  /\ UNCHANGED <<flagVars, runVars, localVars, starCount, callVars, procVars, sessionVars,
                 accountIndex, switchTo, limitsZero, useStars, trail, now, pickIO>>

\* Mode decision: another account is free-ready.
DecideSwitchFree ==
  /\ pc = "decide"
  /\ freeReadyIdx \notin {NULL, accountIndex}
  /\ SwitchBegins(freeReadyIdx)
  /\ trail' = [NoTrail EXCEPT !.switched = TRUE]
  /\ IterationEnds
  /\ StoreQuiet
  /\ UNCHANGED <<flagVars, runVars, localVars, starCount, callVars, procVars,
                 accountIndex, savedAccounts, accounts, now, pickIO>>

\* Mode decision: no free quota and no account to pay with: the
\* wait-for-free sleep.
DecideWaitFree ==
  /\ pc = "decide"
  /\ freeReadyIdx \in {NULL, accountIndex}
  /\ ~freeReady
  /\ starIdx = NULL \/ (starIdx = accountIndex /\ StarCostUnusable)
  /\ cancelSleep' = delayWithStop(stopRequested)
  /\ trail' = [NoTrail EXCEPT !.sleeps = IF cancelSleep' THEN 1 ELSE 0]
  /\ pc' = "wait_sleep"
  /\ IterationEnds
  /\ StoreQuiet
  /\ UNCHANGED <<flagVars, runVars, localVars, starCount, callVars, exitCode, sessionVars,
                 accountIndex, switchTo, savedAccounts, accounts, now, pickIO>>

\* Mode decision: another account can pay.
DecideSwitchStar ==
  /\ pc = "decide"
  /\ freeReadyIdx \in {NULL, accountIndex}
  /\ ~freeReady
  /\ starIdx \notin {NULL, accountIndex}
  /\ SwitchBegins(starIdx)
  /\ trail' = [NoTrail EXCEPT !.switched = TRUE]
  /\ IterationEnds
  /\ StoreQuiet
  /\ UNCHANGED <<flagVars, runVars, localVars, starCount, callVars, procVars,
                 accountIndex, savedAccounts, accounts, now, pickIO>>

\* Mode decision: a sweep on the active account, free or paid; insertRun,
\* then the delay before runSearchLoop.
DecideSweep ==
  /\ pc = "decide"
  /\ freeReadyIdx \in {NULL, accountIndex}
  /\ freeReady \/ (starIdx = accountIndex /\ ~StarCostUnusable)
  /\ useStars' = ~freeReady
  /\ starCount' = starCountForRun(useStars')
  /\ runsCreated < MaxRuns
  /\ \E ok \in BOOLEAN : InsertedRun(ok)
  /\ cancelSleep' = delayWithStop(stopRequested)
  /\ trail' = NoTrail
  /\ pc' = "pre_delay"
  /\ StoreQuiet
  /\ UNCHANGED <<flagVars, localVars, callVars, exitCode, sessionVars, accountIndex,
                 switchTo, preLimits, starBalance, limitsZero, savedAccounts, accounts, now,
                 pickIO>>

\* The delay before the sweep is over: runSearchLoop is entered.
PreDelayOver ==
  /\ pc = "pre_delay"
  /\ ~cancelSleep
  /\ pc' = "sw_loop"
  /\ StoreQuiet
  /\ UNCHANGED <<flagVars, runVars, localVars, callVars, starCount, procVars, sessionVars, accountIndex,
                 switchTo, quotaVars, savedAccounts, trail, accounts, now, pickIO>>

\* limitsZero
LimitsZero(exceeded, limits) ==
  exceeded \/ (limits.ok /\ IsFinite(limits.remaining_free_query_count)
                         /\ limits.remaining_free_query_count <= 0)

\* A mutation of RunAfterUpdate: the statement has no WHERE clause.
AllRunsAfterUpdate(table, runId, row) ==
  [k \in DOMAIN table |-> [row EXCEPT !.updates = table[k].updates + 1]]

\* UPDATE runs SET limits_json, limits_exceeded WHERE run_id = @run_id
RunAfterUpdate(table, runId, row) ==
  [k \in DOMAIN table |->
     IF k = runId THEN [row EXCEPT !.updates = table[k].updates + 1] ELSE table[k]]

\* dbOps.updateRun; `ok` is FALSE when it throws.
UpdatedRun(ok, limits, zero) ==
  runs' = IF ok /\ currentRunId # NULL
          THEN RunAfterUpdate(runs, currentRunId,
                              [limits_json |-> limits.ok,
                               limits_exceeded |-> IF zero THEN 1 ELSE 0,
                               updates |-> 0])
          ELSE runs

\* The locals of runSearchLoop and its result are no longer used.
SweepReturned ==
  /\ offset' = ""
  /\ page' = 0
  /\ total' = 0
  /\ limitsExceeded' = FALSE
  /\ balanceLow' = FALSE
  /\ starCount' = 0
  /\ sweepCalls' = <<>>
  /\ sweepPages' = <<>>
  /\ surfaced' = {}

\* After runSearchLoop returned: the limits are read again after a paid, an
\* exhausted or a balance-low sweep, the Run row and the flat fields of the
\* active account are updated and the registry is saved.
PostSweep(answers) ==
  /\ pc = "post_sweep"
  /\ \E limits \in IF limitsExceeded \/ balanceLow \/ useStars
                   THEN answers ELSE {preLimits} :
       /\ limitsZero' = LimitsZero(limitsExceeded, limits)
       /\ \E ok \in BOOLEAN : UpdatedRun(ok, limits, limitsZero')
       /\ accounts' = [accounts EXCEPT
                         ![accountIndex + 1] = UpdatedAfterSweep(@, limits, starBalance, now)]
  /\ savedAccounts' = writeAccounts(accounts')
  /\ SweepReturned
  /\ trail' = [trail EXCEPT !.swept = TRUE]
  /\ pc' = "after_save"
  /\ StoreQuiet
  /\ UNCHANGED <<flagVars, currentRunId, runsCreated, procVars, sessionVars, accountIndex,
                 switchTo, preLimits, starBalance, useStars, now, pickIO>>

\* if (stopRequested) break, after the save that follows a sweep.
AfterSaveStop ==
  /\ pc = "after_save"
  /\ stopRequested
  /\ pc' = "exit"
  /\ IterationEnds
  /\ StoreQuiet
  /\ UNCHANGED <<flagVars, runVars, localVars, starCount, callVars, procVars, sessionVars,
                 accountIndex, switchTo, savedAccounts, trail, accounts, now,
                 pickIO>>

\* The index findNextFreeAccountIndex(accounts, 0) returns after a paid sweep.
freeIdx == findNextFreeAccountIndex(accounts, 0, now)

\* The index findNextFreeAccountIndex(accounts, accountIndex + 1) returns
\* after an exhausted free sweep.
nextFreeIdx == findNextFreeAccountIndex(accounts, accountIndex + 1, now)

SwitchAfterPaid == useStars /\ Len(accounts) > 1 /\ freeIdx \notin {NULL, accountIndex}

\* A mutation of SwitchAfterFree: the exhaustion of the quota is not asked for.
SwitchAfterFreeUnexhausted ==
  ~useStars /\ Len(accounts) > 1 /\ nextFreeIdx \notin {NULL, accountIndex}

SwitchAfterFree ==
  ~useStars /\ limitsZero /\ Len(accounts) > 1 /\ nextFreeIdx \notin {NULL, accountIndex}

\* After a paid sweep another account is free-ready: switch to it.
AfterSaveSwitchPaid ==
  /\ pc = "after_save"
  /\ ~stopRequested
  /\ SwitchAfterPaid
  /\ SwitchBegins(freeIdx)
  /\ trail' = [trail EXCEPT !.switched = TRUE]
  /\ IterationEnds
  /\ StoreQuiet
  /\ UNCHANGED <<flagVars, runVars, localVars, starCount, callVars, procVars,
                 accountIndex, savedAccounts, accounts, now, pickIO>>

\* After an exhausted free sweep another account is free-ready: switch to it.
AfterSaveSwitchFree ==
  /\ pc = "after_save"
  /\ ~stopRequested
  /\ ~SwitchAfterPaid
  /\ SwitchAfterFree
  /\ SwitchBegins(nextFreeIdx)
  /\ trail' = [trail EXCEPT !.switched = TRUE]
  /\ IterationEnds
  /\ StoreQuiet
  /\ UNCHANGED <<flagVars, runVars, localVars, starCount, callVars, procVars,
                 accountIndex, savedAccounts, accounts, now, pickIO>>

\* Otherwise the inter-sweep sleep.
AfterSaveSleep ==
  /\ pc = "after_save"
  /\ ~stopRequested
  /\ ~SwitchAfterPaid
  /\ ~SwitchAfterFree
  /\ cancelSleep' = delayWithStop(stopRequested)
  /\ trail' = [trail EXCEPT !.sleeps = @ + (IF cancelSleep' THEN 1 ELSE 0)]
  /\ pc' = "inter_sleep"
  /\ IterationEnds
  /\ StoreQuiet
  /\ UNCHANGED <<flagVars, runVars, localVars, starCount, callVars, exitCode, sessionVars,
                 accountIndex, switchTo, savedAccounts, accounts, now, pickIO>>

\* The inter-sweep sleep or the wait-for-free sleep is over, by its timer
\* or by the stop signal; the loop condition is tested.
SleepOver ==
  /\ pc \in {"inter_sleep", "wait_sleep"}
  /\ ~cancelSleep
  /\ pc' = IF stopRequested THEN "exit" ELSE "refresh"
  /\ StoreQuiet
  /\ UNCHANGED <<flagVars, runVars, localVars, starCount, callVars, procVars, sessionVars,
                 accountIndex, switchTo, quotaVars, savedAccounts, trail, accounts, now,
                 pickIO>>

\* What an account switch leaves of the old session, added to `orphans`:
\* nothing when close() resolved and destroy() ran; when close() threw,
\* destroy() is skipped and the session is left live or closed.
ClosedSession(ok, stays) ==
  IF ok THEN [live |-> 0, undestroyed |-> 0]
  ELSE [live |-> IF stays THEN 1 ELSE 0, undestroyed |-> 1]

\* Account switch: client.close() settled, client.destroy(), accountIndex
\* and currentAccount move, ensureAccountDirs is awaited.
CloseDone ==
  /\ pc = "closing"
  /\ \E ok \in BOOLEAN, stays \in BOOLEAN :
       /\ ~ok => orphans.undestroyed < MaxOrphans
       /\ ok => ~stays
       /\ orphans' = [live |-> orphans.live + ClosedSession(ok, stays).live,
                      undestroyed |-> orphans.undestroyed + ClosedSession(ok, stays).undestroyed]
  /\ session' = "none"
  /\ accountIndex' = switchTo
  /\ switchTo' = NULL
  /\ pc' = "mkdirs"
  /\ StoreQuiet
  /\ UNCHANGED <<flagVars, runVars, localVars, starCount, callVars, procVars, handlerOn,
                 quotaVars, savedAccounts, trail, accounts, now, pickIO>>

\* Account switch: createClientWithDirs, attachUpdateProcessor, login is
\* awaited.
DirsDone ==
  /\ pc = "mkdirs"
  /\ session' = "live"
  /\ handlerOn' = TRUE
  /\ pc' = "login"
  /\ StoreQuiet
  /\ UNCHANGED <<flagVars, runVars, localVars, starCount, callVars, procVars, orphans,
                 accountIndex, switchTo, quotaVars, savedAccounts, trail, accounts, now,
                 pickIO>>

\* finally: shuttingDown = true, detachUpdates(), client.close() is awaited.
Exit ==
  /\ pc = "exit"
  /\ shuttingDown' = TRUE
  /\ handlerOn' = Detached(handlerOn)
  /\ pc' = "final_close"
  /\ StoreQuiet
  /\ UNCHANGED <<stopRequested, runVars, localVars, starCount, callVars, procVars, session,
                 orphans, accountIndex, switchTo, quotaVars, savedAccounts, trail, accounts,
                 now, pickIO>>

\* finally: client.close() settled, client.destroy(), dbOps.db.close().
FinalClose ==
  /\ pc = "final_close"
  /\ \E ok \in BOOLEAN, stays \in BOOLEAN :
       /\ ok => ~stays
       /\ session' = IF stays THEN "live" ELSE "closed"
  /\ pc' = "done"
  /\ StoreQuiet
  /\ UNCHANGED <<flagVars, runVars, localVars, starCount, callVars, procVars, handlerOn,
                 orphans, accountIndex, switchTo, quotaVars, savedAccounts, trail, accounts,
                 now, pickIO>>

(***************************************************************************)
(* SpecMain: main from the first login to the end of the process.          *)
(***************************************************************************)

\* The scheduler looks at the cursor and the exhaustion flag of a page,
\* not at its posts: the pages of SpecMain carry none.
MainResponses == { res \in SearchResponses({<<>>}, {"x1"}) : res.has_next_offset }

InitMain ==
  /\ posts = <<>>
  /\ lastMissing = {}
  /\ seenMax = NoneSeen
  /\ StoreEmpty
  /\ SweepEntry
  /\ starCount = 0
  /\ currentRunId = NULL
  /\ runsCreated = 0
  /\ shuttingDown = FALSE
  /\ stopRequested = FALSE
  /\ cancelSleep = FALSE
  /\ exitCode = 0
  /\ pc = "login"
  /\ accountIndex = 0
  /\ session = "live"
  /\ handlerOn = TRUE
  /\ orphans = [live |-> 0, undestroyed |-> 0]
  /\ switchTo = NULL
  /\ useStars = FALSE
  /\ preLimits = NoLimits
  /\ starBalance = NULL
  /\ limitsZero = FALSE
  /\ accounts \in Registries
  /\ savedAccounts = accounts
  /\ runs = <<>>
  /\ trail = NoTrail
  /\ now = 0
  /\ pickArgs = [fromIndex |-> 0, minCost |-> 0]
  /\ pickOut = [op |-> "none", idx |-> NULL, visited |-> <<>>]

NextMain ==
  \/ LoginDone
  \/ LoginFails
  \/ RefreshQuota(LimitsResponses, BalanceResponses)
  \/ DecideSwitchFree
  \/ DecideWaitFree
  \/ DecideSwitchStar
  \/ DecideSweep
  \/ PreDelayOver
  \/ SweepLoop
  \/ PageDelayOver
  \/ SearchPage(MainResponses, FetchOutcomes)
  \/ SearchBalanceLow
  \/ SearchFails
  \/ PostSweep(LimitsResponses)
  \/ AfterSaveStop
  \/ AfterSaveSwitchPaid
  \/ AfterSaveSwitchFree
  \/ AfterSaveSleep
  \/ SleepOver
  \/ CloseDone
  \/ DirsDone
  \/ Exit
  \/ FinalClose
  \/ TimerFires
  \/ Tick
  \/ StopSignal

SpecMain == InitMain /\ [][NextMain]_vars

C8_StopEndsSleep ==
  /\ [](stopRequested => ~cancelSleep)
  /\ [][(stopRequested /\ pc \in {"inter_sleep", "wait_sleep"})
          => pc' \in {pc, "exit"}]_vars
  /\ [][(pc \in {"exit", "final_close", "done"})
          => pc' \in {"exit", "final_close", "done"}]_vars

\* The stop signal arrived while the timer of the inter-sweep sleep was
\* pending: the timer is gone and the sleep is over.
C8_Witness ==
  /\ pc = "inter_sleep"
  /\ stopRequested
  /\ trail.cut
  /\ ~cancelSleep

LiveSessions == (IF session = "live" THEN 1 ELSE 0) + orphans.live

\* C9: at most one session is live, and in an account switch the new
\* session is created only after the handler was detached and the old
\* session was closed and destroyed, also when close() failed.
C9_OneLiveSession ==
  /\ LiveSessions <= 1
  /\ pc \in {"closing", "mkdirs"} => ~handlerOn
  /\ session = "live" => orphans.undestroyed = 0

OtherIndexes == { i \in 0 .. Len(accounts) - 1 : i # accountIndex }

\* A mode decision that starts a sweep: the step from the decision to the
\* delay before runSearchLoop.
SweepDecided == pc = "decide" /\ pc' = "pre_delay"

\* C13: when the active account has remaining_free > 0 after the refresh,
\* the mode decision can only start a free sweep on that same account
\* (star_count 0, no switch); and a paid sweep is started only when the
\* active account has no remaining_free > 0 and no other account of the
\* registry is free-ready.
C13_FreeBeforePaid ==
  /\ [][(pc = "decide" /\ currentAccount.remaining_free > 0 /\ pc' # pc)
          => /\ pc' = "pre_delay"
             /\ accountIndex' = accountIndex
             /\ ~useStars'
             /\ starCount' = 0]_vars
  /\ [][(SweepDecided /\ useStars')
          => /\ accountIndex' = accountIndex
             /\ starCount' > 0
             /\ ~(currentAccount.remaining_free > 0)
             /\ \A i \in OtherIndexes : ~isFreeReady(At(accounts, i), now)]_vars
  /\ [](Len(sweepCalls) > 0 =>
          sweepCalls[Len(sweepCalls)].star_count = (IF useStars THEN STAR_SPEND ELSE 0))

\* A paid search call is in progress on the first of two accounts: it has no
\* free quota left, and the second account has none either and no free_at
\* that has passed.
C13_Witness ==
  /\ pc = "searching"
  /\ useStars
  /\ sweepCalls = <<[offset |-> "", star_count |-> STAR_SPEND]>>
  /\ Len(accounts) = 2
  /\ accountIndex = 0
  /\ currentAccount.remaining_free = 0
  /\ ~isFreeReady(At(accounts, 1), now)
  /\ At(accounts, 1).free_at = 1

SwitchPath == {"closing", "mkdirs", "login"}

\* C14: an account switch, begun by the mode decision or after a sweep,
\* runs through close, directories and login to the loop head, where the
\* quota refresh of the new account follows unless the process was stopped;
\* no delay timer is set on the way and no sleep was executed between the
\* sweep or decision that switched and the next refresh and decision.
C14_SwitchWithoutSleep ==
  /\ [][(switchTo' # NULL /\ switchTo = NULL)
          => /\ pc \in {"decide", "after_save"}
             /\ pc' = "closing"
             /\ switchTo' # accountIndex
             /\ trail'.switched]_vars
  /\ [][(pc = "closing" /\ pc' # pc) => (pc' = "mkdirs" /\ accountIndex' = switchTo)]_vars
  /\ [][(pc = "mkdirs" /\ pc' # pc) => (pc' = "login" /\ accountIndex' = accountIndex)]_vars
  /\ [][(pc = "login" /\ pc' # pc)
          => /\ accountIndex' = accountIndex
             /\ \/ pc' = "refresh" /\ ~stopRequested
                \/ pc' = "exit"]_vars
  /\ [](pc \in SwitchPath => ~cancelSleep)
  /\ []((trail.switched /\ pc \in SwitchPath \cup {"refresh", "decide"}) => trail.sleeps = 0)

\* After the first sweep the scheduler switched from account 0 to account 1
\* and stands at the quota refresh of account 1; no sleep was executed.
C14_Witness ==
  /\ pc = "refresh"
  /\ trail.switched
  /\ trail.sleeps = 0
  /\ accountIndex = 1
  /\ runsCreated = 1
  /\ DOMAIN runs = {1}
  /\ ~stopRequested

\* The awaits from insertRun to the update that follows runSearchLoop.
SweepPcs == {"pre_delay", "sw_loop", "page_delay", "searching", "post_sweep"}

\* The sweep of Run k is over.
SweepOver(k) == k # currentRunId \/ pc \notin SweepPcs

ExitPath == {"exit", "final_close", "done"}

\* A failed search call ends the sweep and the scheduler loop with a
\* non-zero exit code: the step leaves runSearchLoop for the exit path with
\* exit code 1, the exit path is never left, on it no search call is made,
\* no run is created and the account is not changed, and at the end of the
\* process the update handler is detached.
FatalEndsScheduler ==
  /\ [][(pc = "searching" /\ pc' \notin {"searching", "sw_loop", "post_sweep"})
          => (pc' = "exit" /\ exitCode' = 1)]_vars
  /\ [](trail.fatal => (exitCode = 1 /\ pc \in ExitPath))
  /\ [][(pc \in ExitPath)
          => /\ pc' \in ExitPath
             /\ sweepCalls' = sweepCalls
             /\ runsCreated' = runsCreated
             /\ accountIndex' = accountIndex
             /\ exitCode' = exitCode]_vars
  /\ [](pc = "done" => (shuttingDown /\ ~handlerOn))

\* C20: a failed search call ends the sweep and the scheduler loop, no
\* further sweep, refresh or switch is started, the exit code is non-zero,
\* the update handler is detached, and the session is closed when the
\* process ends.
C20_FatalErrorShutsDown ==
  /\ FatalEndsScheduler
  /\ [](pc = "done" /\ trail.fatal => session = "closed")

\* The process ended after a failed search call of the first sweep with
\* the handler detached and exit code 1.
C20_FatalReached ==
  /\ pc = "done"
  /\ trail.fatal
  /\ exitCode = 1
  /\ Len(sweepCalls) > 0
  /\ ~handlerOn
  /\ ~stopRequested

\* C32: on every way out of the scheduler loop, by the stop signal or by a
\* fatal error, the update handler is detached before the session is
\* closed, the session is closed before the data store, and when the
\* process ends the handler is detached and no session is left open.
C32_ShutdownInOrder ==
  /\ [][(pc \in ExitPath) => pc' \in ExitPath]_vars
  /\ [](pc = "final_close" => (shuttingDown /\ ~handlerOn))
  /\ [](pc = "done" => (shuttingDown /\ ~handlerOn /\ session = "closed"))

\* C34: once the stop signal has been received no Run row is created, no
\* account switch begins and no session is opened.
C34_NoRunNoSwitchAfterStop ==
  [][stopRequested
       => /\ runsCreated' = runsCreated
          /\ DOMAIN runs' = DOMAIN runs
          /\ accountIndex' = accountIndex
          /\ pc' = "closing" => pc = "closing"
          /\ session' = "live" => session = "live"]_vars

\* The registry file holds every account of the registry as sanitizeAccount
\* writes it.
RegistrySaved ==
  /\ Len(savedAccounts) = Len(accounts)
  /\ \A i \in 1 .. Len(accounts) : savedAccounts[i] = sanitizeAccount(accounts[i])

\* C22: the step of the quota refresh and the step of the quota update
\* after a sweep save the whole registry; the registry changes in no other
\* step but the one that flags the active account after an
\* insufficient-balance error, which leads to the update after the sweep;
\* so at the mode decision, in a switch, in a sweep and in every sleep the
\* registry file holds the registry as it is in memory.
C22_SavedAfterRefresh ==
  /\ [][(pc \in {"refresh", "post_sweep"} /\ pc' # pc) => RegistrySaved']_vars
  /\ [][(accounts' # accounts)
          => (pc \in {"refresh", "post_sweep"} \/ (pc = "searching" /\ pc' = "post_sweep"))]_vars
  /\ [](pc # "post_sweep" => RegistrySaved)

\* After a free sweep on the second of two accounts that used up its free
\* quota, the scheduler is about to switch or sleep and the file holds the
\* quota of both accounts as they are in memory.
C22_Witness ==
  /\ pc = "after_save"
  /\ Len(accounts) = 2
  /\ accountIndex = 1
  /\ limitsZero
  /\ ~useStars
  /\ currentAccount.remaining_free = 0
  /\ savedAccounts[2].remaining_free = 0
  /\ savedAccounts[1] = sanitizeAccount(accounts[1])
  /\ RegistrySaved

\* The detaching and the closing come first in a switch: the old session
\* is being closed only with its handler detached, and the new session is
\* created only when the closing has settled.
DetachThenCloseThenOpen ==
  /\ [](pc = "closing" => (~handlerOn /\ session = "live"))
  /\ [](pc = "mkdirs" => (~handlerOn /\ session = "none"))
  /\ [][(pc = "closing" /\ pc' # pc) => pc' = "mkdirs"]_vars
  /\ [][(pc = "mkdirs" /\ pc' # pc) => (pc' = "login" /\ session' = "live")]_vars

\* C25: in an account switch the handler is detached, then the old session
\* is closed, then the new session is created and authenticated, and only
\* then the handler is attached: while the login of the new session is
\* awaited no handler is subscribed.
C25_AttachAfterLogin ==
  /\ DetachThenCloseThenOpen
  /\ [](pc = "login" /\ trail.switched => ~handlerOn)

\* idx is the first free-ready account in cyclic order from the position
\* after the active account.
FirstFreeAfterActive(idx) ==
  /\ QualifiesFree(At(accounts, idx))
  /\ \E k \in 1 .. Len(accounts) :
       /\ CyclicAt(accountIndex, k, Len(accounts)) = idx
       /\ \A j \in 1 .. (k - 1) :
            ~QualifiesFree(At(accounts, CyclicAt(accountIndex, j, Len(accounts))))

\* Another account of the registry is free-ready.
OtherFreeReady == \E i \in OtherIndexes : QualifiesFree(At(accounts, i))

\* The step the scheduler takes after the save that follows a sweep which
\* ended normally or with the exhaustion flag, no stop signal received.
AfterSweepStep ==
  /\ pc = "after_save"
  /\ pc' # pc
  /\ trail.low = NULL
  /\ ~stopRequested

\* C27 as stated: after such a sweep the scheduler switches when the quota
\* of the active account is exhausted and another account is free-ready,
\* and in every other case begins the inter-sweep sleep; the next refresh
\* is reached after no sleep of a switch and after exactly one sleep
\* otherwise.
C27_SwitchIffExhausted ==
  /\ [][AfterSweepStep
          => IF limitsZero /\ OtherFreeReady
             THEN pc' = "closing" /\ QualifiesFree(At(accounts, switchTo'))
             ELSE pc' = "inter_sleep"]_vars
  /\ [](pc = "refresh" /\ trail.swept /\ trail.low = NULL
          => \/ trail.switched /\ trail.sleeps = 0
             \/ ~trail.switched /\ trail.sleeps = 1)

\* The lowest index of a free-ready account is not the active one.
LowestFreeReadyIsOther ==
  \E i \in OtherIndexes :
    /\ QualifiesFree(At(accounts, i))
    /\ \A j \in 0 .. (i - 1) : ~QualifiesFree(At(accounts, j))

\* C27, amended: after a free sweep the scheduler switches when the quota
\* of the active account is exhausted and another account is free-ready,
\* and sleeps otherwise; after a paid sweep it switches when the free-ready
\* account of the lowest index is another account, whatever the quota of
\* the active one, and sleeps otherwise; a switch goes to a free-ready
\* account; and the next refresh is reached after a switch and no sleep, or
\* after exactly one inter-sweep sleep and no switch.
C27_SwitchRuleBySweepMode ==
  /\ [][(AfterSweepStep /\ ~useStars)
          => IF limitsZero /\ OtherFreeReady
             THEN pc' = "closing" /\ FirstFreeAfterActive(switchTo')
             ELSE pc' = "inter_sleep"]_vars
  /\ [][(AfterSweepStep /\ useStars)
          => IF LowestFreeReadyIsOther
             THEN pc' = "closing" /\ QualifiesFree(At(accounts, switchTo'))
             ELSE pc' = "inter_sleep"]_vars
  /\ [](pc = "refresh" /\ trail.swept /\ trail.low = NULL
          => \/ trail.switched /\ trail.sleeps = 0
             \/ ~trail.switched /\ trail.sleeps = 1)

\* The next refresh is reached on the second account after a switch that
\* followed an exhausted free sweep, with no sleep made.
C27_Witness ==
  /\ pc = "refresh"
  /\ trail.swept
  /\ trail.low = NULL
  /\ trail.switched
  /\ trail.sleeps = 0
  /\ accountIndex = 1
  /\ At(accounts, 0).remaining_free = 0
  /\ At(accounts, 0).star_cost_per_query = STAR_SPEND
  /\ ~At(accounts, 0).skip_stars
  /\ runsCreated = 1
  /\ 1 \in DOMAIN runs
  /\ runs[1].limits_exceeded = 1
  /\ ~stopRequested

\* The name and the two storage directories of an account.
Identity(acc) == <<acc.name, acc.database_directory, acc.files_directory>>

\* The fields of an account that main assigns.
QuotaFields ==
  {"remaining_free", "free_at", "star_cost_per_query", "star_balance", "skip_stars"}

\* C24: the registry file always holds as many accounts as the registry in
\* memory, in the same order, each with the name and the two directories
\* it has had from the start; and a save changes the file in no account
\* but the active one, and there in no field but the quota fields and
\* skip_stars.
C24_SaveKeepsIdentity ==
  /\ [](/\ Len(savedAccounts) = Len(accounts)
        /\ \A i \in 1 .. Len(accounts) :
             /\ Identity(savedAccounts[i]) = Identity(accounts[i])
             /\ Identity(accounts[i]) = <<<<"account", i>>, <<"db", i>>, <<"files", i>>>>)
  /\ [][\A i \in 1 .. Len(savedAccounts) :
          /\ i # accountIndex + 1 => savedAccounts'[i] = savedAccounts[i]
          /\ \A f \in (DOMAIN savedAccounts[i]) \ QuotaFields :
               savedAccounts'[i][f] = savedAccounts[i][f]
          /\ DOMAIN savedAccounts'[i] = DOMAIN savedAccounts[i]]_vars

\* The save after a sweep on the second of two accounts changed the quota
\* of that account in the file; the first account is in the file as the
\* start-up registry had it but for the quota its own refresh reported.
C24_Witness ==
  /\ pc = "after_save"
  /\ Len(savedAccounts) = 2
  /\ accountIndex = 1
  /\ savedAccounts[2].remaining_free = 0
  /\ savedAccounts[2].free_at = 1
  /\ savedAccounts[2].name = <<"account", 2>>
  /\ savedAccounts[1].name = <<"account", 1>>
  /\ savedAccounts[1].free_at = 1
  /\ savedAccounts = writeAccounts(accounts)

(***************************************************************************)
(* SpecRefresh: main on a platform whose quota-limits query and balance    *)
(* lookup can fail.  The runs table holds the rows of earlier processes,   *)
(* so the process creates the last Run the model has room for; the first   *)
(* account is any account of the registry file, since a failed query       *)
(* leaves its stored quota in place.                                       *)
(***************************************************************************)

\* logLimits returns the limits or null.
LimitsAnswers == LimitsResponses \cup {NoLimits}

\* starBalance after the lookup: a number, or null when getMe or
\* getStarTransactions threw or the amount is not a number.
BalanceAnswers == BalanceResponses \cup {NULL}

RefreshRegistries ==
  { WithIdentity(r) : r \in
      { q \in SeqsUpTo(RegistryAccounts, MaxAccounts) :
          /\ Len(q) >= 1
          /\ Len(q) = 2 => (q[2].remaining_free = 0 /\ q[2].free_at = 1
                            /\ q[2].star_cost_per_query = STAR_SPEND) } }

\* The rows of the runs table that earlier processes left.
EarlierRuns ==
  [k \in 1 .. MaxRuns - 1 |-> [limits_json |-> TRUE, limits_exceeded |-> 0, updates |-> 1]]

InitRefresh ==
  /\ posts = <<>>
  /\ lastMissing = {}
  /\ seenMax = NoneSeen
  /\ StoreEmpty
  /\ SweepEntry
  /\ starCount = 0
  /\ currentRunId = NULL
  /\ runsCreated = MaxRuns - 1
  /\ shuttingDown = FALSE
  /\ stopRequested = FALSE
  /\ cancelSleep = FALSE
  /\ exitCode = 0
  /\ pc = "login"
  /\ accountIndex = 0
  /\ session = "live"
  /\ handlerOn = TRUE
  /\ orphans = [live |-> 0, undestroyed |-> 0]
  /\ switchTo = NULL
  /\ useStars = FALSE
  /\ preLimits = NoLimits
  /\ starBalance = NULL
  /\ limitsZero = FALSE
  /\ accounts \in RefreshRegistries
  /\ savedAccounts = accounts
  /\ runs = EarlierRuns
  /\ trail = NoTrail
  /\ now = 0
  /\ pickArgs = [fromIndex |-> 0, minCost |-> 0]
  /\ pickOut = [op |-> "none", idx |-> NULL, visited |-> <<>>]

NextRefresh ==
  \/ LoginDone
  \/ LoginFails
  \/ RefreshQuota(LimitsAnswers, BalanceAnswers)
  \/ DecideSwitchFree
  \/ DecideWaitFree
  \/ DecideSwitchStar
  \/ DecideSweep
  \/ PreDelayOver
  \/ SweepLoop
  \/ PageDelayOver
  \/ SearchPage(MainResponses, FetchOutcomes)
  \/ SearchBalanceLow
  \/ SearchFails
  \/ PostSweep(LimitsAnswers)
  \/ AfterSaveStop
  \/ AfterSaveSwitchPaid
  \/ AfterSaveSwitchFree
  \/ AfterSaveSleep
  \/ SleepOver
  \/ CloseDone
  \/ DirsDone
  \/ Exit
  \/ FinalClose
  \/ TimerFires
  \/ Tick
  \/ StopSignal

SpecRefresh == InitRefresh /\ [][NextRefresh]_vars

\* C19: the quota refresh always ends at the mode decision with the exit
\* code untouched and the registry saved, whether or not the limits query
\* and the balance lookup failed; after a failed limits query the active
\* account keeps its stored free quota and free_at and has no star cost,
\* after a failed balance lookup it keeps its stored balance; the mode
\* decision then switches, sleeps or sweeps; and a failed limits query
\* after a sweep leads on to the save that follows the sweep.
C19_RefreshNeverFatal ==
  /\ [][(pc = "refresh" /\ pc' # pc)
          => /\ pc' = "decide"
             /\ exitCode' = exitCode
             /\ savedAccounts' = writeAccounts(accounts')
             /\ accountIndex' = accountIndex
             /\ ~preLimits'.ok
                  => /\ At(accounts', accountIndex).remaining_free = currentAccount.remaining_free
                     /\ At(accounts', accountIndex).free_at = currentAccount.free_at
                     /\ At(accounts', accountIndex).star_cost_per_query = NULL
             /\ starBalance' = NULL
                  => At(accounts', accountIndex).star_balance = currentAccount.star_balance]_vars
  /\ [][(pc = "decide" /\ pc' # pc)
          => (pc' \in {"closing", "wait_sleep", "pre_delay"} /\ exitCode' = exitCode)]_vars
  /\ [][(pc = "post_sweep" /\ pc' # pc)
          => (pc' = "after_save" /\ exitCode' = exitCode
              /\ savedAccounts' = writeAccounts(accounts'))]_vars

\* Both the limits query and the balance lookup failed in the refresh of
\* the first of two accounts: the scheduler stands at the mode decision,
\* the account keeps the free quota of the registry file and the registry
\* is saved.
C19_Witness ==
  /\ pc = "decide"
  /\ ~preLimits.ok
  /\ starBalance = NULL
  /\ exitCode = 0
  /\ ~stopRequested
  /\ Len(accounts) = 2
  /\ accountIndex = 0
  /\ currentAccount.remaining_free = 1
  /\ currentAccount.star_cost_per_query = NULL
  /\ currentAccount.star_balance = 100
  /\ savedAccounts = writeAccounts(accounts)

\* The step begins an account switch.
SwitchStep == pc \in {"decide", "after_save"} /\ pc' = "closing"

\* Since the mode decision before this one the scheduler has switched the
\* account and has neither swept nor slept.
JustSwitched == trail.switched /\ trail.sleeps = 0 /\ ~trail.swept

\* C33: between two consecutive account switches the scheduler performs a
\* sweep or a sleep: no switch begins when the scheduler has done nothing
\* since the last switch but log in and refresh the quota.
C33_NoSwitchRightAfterSwitch ==
  [][SwitchStep => ~JustSwitched]_vars

\* main at its first login, with a registry file out of `registries` and
\* an empty database.
InitRegistry(registries) ==
  /\ posts = <<>>
  /\ lastMissing = {}
  /\ seenMax = NoneSeen
  /\ StoreEmpty
  /\ SweepEntry
  /\ starCount = 0
  /\ currentRunId = NULL
  /\ runsCreated = 0
  /\ shuttingDown = FALSE
  /\ stopRequested = FALSE
  /\ cancelSleep = FALSE
  /\ exitCode = 0
  /\ pc = "login"
  /\ accountIndex = 0
  /\ session = "live"
  /\ handlerOn = TRUE
  /\ orphans = [live |-> 0, undestroyed |-> 0]
  /\ switchTo = NULL
  /\ useStars = FALSE
  /\ preLimits = NoLimits
  /\ starBalance = NULL
  /\ limitsZero = FALSE
  /\ accounts \in registries
  /\ savedAccounts = accounts
  /\ runs = <<>>
  /\ trail = NoTrail
  /\ now = 0
  /\ pickArgs = [fromIndex |-> 0, minCost |-> 0]
  /\ pickOut = [op |-> "none", idx |-> NULL, visited |-> <<>>]

(***************************************************************************)
(* SpecSwitch: main with a registry of more than two accounts, so that an  *)
(* account switch has more than one account to choose from.                *)
(***************************************************************************)

\* The first account has no free quota, the second has, the others get
\* theirs back at time 1.
SwitchRegistries ==
  { WithIdentity(
      [i \in 1 .. MaxSwitchAccounts |->
         IF i = 1 THEN first
         ELSE [remaining_free |-> IF i = 2 THEN 1 ELSE 0,
               free_at |-> IF i = 2 THEN NULL ELSE 1,
               star_cost_per_query |-> NULL, star_balance |-> NULL,
               skip_stars |-> FALSE]]) :
    first \in { acc \in RegistryAccounts :
                  acc.remaining_free = 0 /\ acc.free_at = NULL
                  /\ acc.star_cost_per_query = NULL } }

InitSwitch == InitRegistry(SwitchRegistries)

SpecSwitch == InitSwitch /\ [][NextMain]_vars

\* A step that begins a switch to a free-ready account.  A switch to an
\* account that pays is made only when no account is free-ready.
FreeSwitch ==
  /\ pc \in {"decide", "after_save"}
  /\ pc' = "closing"
  /\ QualifiesFree(At(accounts, switchTo'))

\* The switches of the mode decision and after an exhausted free sweep go
\* to the first free-ready account after the active one.
FreeSwitchCyclicUnlessPaid ==
  [][(FreeSwitch /\ ~(pc = "after_save" /\ useStars))
       => FirstFreeAfterActive(switchTo')]_vars

\* C23: every switch to a free-ready account, in the mode decision, after
\* an exhausted free sweep or after a paid sweep, goes to the first
\* free-ready account in cyclic order from the position after the active
\* account.
C23_SwitchCyclicFirstFree ==
  [][FreeSwitch => (switchTo' # accountIndex /\ FirstFreeAfterActive(switchTo'))]_vars

(***************************************************************************)
(* SpecPaid: main on a platform whose per-call cost differs from answer to *)
(* answer and can lie below STAR_SPEND.                                    *)
(***************************************************************************)

\* The per-call costs the platform reports.
StarCosts == {STAR_SPEND - 5, STAR_SPEND, STAR_SPEND + 5}

\* Free quota left at the cost of STAR_SPEND, or none left at a cost below
\* or above it.
PaidLimits ==
  { [ok |-> TRUE, remaining_free_query_count |-> q[1], next_free_query_in |-> q[2],
     star_count |-> q[3]] :
    q \in {<<1, 0, STAR_SPEND>>} \cup { <<0, 1, cost>> : cost \in StarCosts \ {STAR_SPEND} } }

\* Registries of one account, or of two whose second can pay and gets its
\* free quota back at time 1.
PaidRegistries ==
  { r \in Registries :
      Len(r) = 2 => (r[2].remaining_free = 0 /\ r[2].free_at = 1
                     /\ r[2].star_cost_per_query = STAR_SPEND) }

InitPaid == InitRegistry(PaidRegistries)

NextPaid ==
  \/ LoginDone
  \/ LoginFails
  \/ RefreshQuota(PaidLimits, BalanceResponses)
  \/ DecideSwitchFree
  \/ DecideWaitFree
  \/ DecideSwitchStar
  \/ DecideSweep
  \/ PreDelayOver
  \/ SweepLoop
  \/ PageDelayOver
  \/ SearchPage(MainResponses, FetchOutcomes)
  \/ SearchBalanceLow
  \/ SearchFails
  \/ PostSweep(PaidLimits)
  \/ AfterSaveStop
  \/ AfterSaveSwitchPaid
  \/ AfterSaveSwitchFree
  \/ AfterSaveSleep
  \/ SleepOver
  \/ CloseDone
  \/ DirsDone
  \/ Exit
  \/ FinalClose
  \/ TimerFires
  \/ Tick
  \/ StopSignal

SpecPaid == InitPaid /\ [][NextPaid]_vars

\* The 0-based indexes of the accounts flagged skip_stars.
SkipFlagged(accs) == { i \in 0 .. Len(accs) - 1 : At(accs, i).skip_stars }

\* C36: no step clears a skip_stars flag; every save of the registry writes
\* the flags as they are in memory, and the file lacks a flag of the memory
\* only between the insufficient-balance outcome and the save that follows
\* the sweep; no paid sweep runs on a flagged account; the registry read
\* back from the file keeps the flags, and findStarAccountIndex never
\* returns a flagged account of it.
C36_SkipStarsSticks ==
  /\ [][SkipFlagged(accounts) \subseteq SkipFlagged(accounts')]_vars
  /\ [][savedAccounts' # savedAccounts
          => SkipFlagged(savedAccounts') = SkipFlagged(accounts')]_vars
  /\ [](pc # "post_sweep" => SkipFlagged(savedAccounts) = SkipFlagged(accounts))
  /\ []((pc \in {"pre_delay", "sw_loop", "page_delay", "searching"} /\ useStars)
          => accountIndex \notin SkipFlagged(accounts))
  /\ [](/\ SkipFlagged(readAccounts(savedAccounts)) = SkipFlagged(savedAccounts)
        /\ findStarAccountIndex(accounts, STAR_SPEND) \notin SkipFlagged(accounts)
        /\ findStarAccountIndex(readAccounts(savedAccounts), STAR_SPEND)
             \notin SkipFlagged(savedAccounts))

\* The active account was flagged in a paid sweep and saved with the flag;
\* its cost and its balance would pay for a query, and the next mode
\* decision sent the scheduler to sleep instead of a paid sweep.
C36_Witness ==
  /\ pc = "wait_sleep"
  /\ accountIndex \in SkipFlagged(accounts)
  /\ accountIndex \in SkipFlagged(savedAccounts)
  /\ IsStarAccountIgnoringSkip(At(accounts, accountIndex), STAR_SPEND)
  /\ findStarAccountIndex(accounts, STAR_SPEND) = NULL

\* From the delay before runSearchLoop to the last await of the sweep.
InSweep == pc \in {"pre_delay", "sw_loop", "page_delay", "searching"}

\* C26: every search call of a sweep carries the star_count the sweep was
\* started with; in a free sweep that is 0; in a paid sweep it is the
\* star_cost_per_query of the active account, which is the cost the
\* refresh of this iteration reported and is > 0; and a paid sweep is
\* started only on the account findStarAccountIndex returns.
C26_StarCountOfSweep ==
  /\ [](\A k \in 1 .. Len(sweepCalls) : sweepCalls[k].star_count = starCount)
  /\ [](InSweep /\ ~useStars => starCount = 0)
  /\ [](InSweep /\ useStars
          => /\ starCount = currentAccount.star_cost_per_query
             /\ starCount = preLimits.star_count
             /\ starCount > 0)
  /\ [][(InSweep /\ InSweep') => (starCount' = starCount /\ useStars' = useStars)]_vars
  /\ [][(SweepDecided /\ useStars')
          => (findStarAccountIndex(accounts, STAR_SPEND) = accountIndex
              /\ accountIndex' = accountIndex)]_vars

\* The second search call of a paid sweep at a cost above STAR_SPEND.
C26_Witness ==
  /\ pc = "searching"
  /\ useStars
  /\ Len(sweepCalls) = 2
  /\ sweepCalls[1].star_count = STAR_SPEND + 5
  /\ sweepCalls[2].star_count = STAR_SPEND + 5
  /\ currentAccount.star_cost_per_query = STAR_SPEND + 5

\* No account can pay: each is flagged skip_stars, or has no known cost of
\* at least STAR_SPEND, or no known positive balance.
NoneCanPay ==
  \A i \in Indexes(accounts) :
    \/ At(accounts, i).skip_stars
    \/ At(accounts, i).star_cost_per_query = NULL
    \/ At(accounts, i).star_cost_per_query < STAR_SPEND
    \/ At(accounts, i).star_balance = NULL
    \/ At(accounts, i).star_balance <= 0

\* The mode decision finds no free quota on the active account, no other
\* account free-ready and no account to pay with.
NothingToUse == pc = "decide" /\ currentFree <= 0 /\ ~OtherFreeReady /\ NoneCanPay

\* No sweep is started, no Run created and no account switched.
IterationIdle ==
  UNCHANGED <<runs, runsCreated, currentRunId, sweepCalls, accountIndex, switchTo, session,
              handlerOn, orphans>>

\* C31: when the active account has no free quota, no other account is
\* free-ready and no account can pay, the mode decision starts the
\* wait-for-free sleep, a delay the stop signal cuts short, and nothing
\* else: no sweep, no Run, no switch; when the sleep is over the loop goes
\* back to the quota refresh, or leaves for the shutdown when the stop
\* signal was received.
C31_WaitWhenNothingToUse ==
  /\ [][(NothingToUse /\ pc' # pc)
          => (pc' = "wait_sleep" /\ cancelSleep' = ~stopRequested /\ IterationIdle)]_vars
  /\ [][(pc = "wait_sleep" /\ pc' # pc)
          => /\ ~cancelSleep
             /\ pc' = IF stopRequested THEN "exit" ELSE "refresh"
             /\ IterationIdle]_vars
  /\ [](pc = "wait_sleep" => (trail.sleeps <= 1 /\ ~trail.swept /\ ~trail.switched))

\* The refresh was re-entered after one wait-for-free sleep: the active
\* account has no free quota and a cost below STAR_SPEND, the other account
\* is not free-ready and cannot pay.
C31_Witness ==
  /\ pc = "refresh"
  /\ trail.sleeps = 1
  /\ ~trail.swept
  /\ ~trail.switched
  /\ trail.low = NULL
  /\ ~stopRequested
  /\ currentFree <= 0
  /\ ~OtherFreeReady
  /\ NoneCanPay
  /\ Len(accounts) = 2
  /\ currentAccount.star_cost_per_query = STAR_SPEND - 5

(***************************************************************************)
(* SpecRun: main with pages that carry a post, so that the tables show     *)
(* what a sweep persisted when insertRun or updateRun threw.               *)
(***************************************************************************)

\* The post the pages of SpecRun carry, with one view.
RunInteractions ==
  { info \in DataInteractions : info.view_count = 1 /\ info.forward_count = NULL }

RunPosts == Messages({1}, {AlbumSize + 1}, RunInteractions)

\* Every page of SpecRun carries the post.
RunResponses ==
  { res \in SearchResponses({ <<m>> : m \in RunPosts }, {"x1"}) : res.has_next_offset }

\* Registries of one account, or of two whose second is free-ready.
RunRegistries ==
  { r \in Registries :
      Len(r) = 2 => (r[2].remaining_free = 1 /\ r[2].star_cost_per_query = NULL) }

InitRun == InitRegistry(RunRegistries)

NextRun ==
  \/ LoginDone
  \/ LoginFails
  \/ RefreshQuota(LimitsResponses, BalanceResponses)
  \/ DecideSwitchFree
  \/ DecideWaitFree
  \/ DecideSwitchStar
  \/ DecideSweep
  \/ PreDelayOver
  \/ SweepLoop
  \/ PageDelayOver
  \/ SearchPage(RunResponses, {"handle"})
  \/ SearchBalanceLow
  \/ SearchFails
  \/ PostSweep(LimitsResponses)
  \/ AfterSaveStop
  \/ AfterSaveSwitchPaid
  \/ AfterSaveSwitchFree
  \/ AfterSaveSleep
  \/ SleepOver
  \/ CloseDone
  \/ DirsDone
  \/ Exit
  \/ FinalClose
  \/ TimerFires
  \/ Tick
  \/ StopSignal

SpecRun == InitRun /\ [][NextRun]_vars

\* The key of the post of SpecRun in the posts table.
RunPostKey == <<1, AlbumSize + 1>>

\* C21: whether or not insertRun or updateRun threw, the exit code changes
\* only in a failed search call or login; the mode decision that starts a
\* sweep goes on to the sweep, with or without a Run row; every page that
\* arrives leaves its post in the posts table; the step after the sweep
\* saves the registry and goes on, whether or not the Run row was updated;
\* and from there the scheduler goes to an account switch or to the
\* inter-sweep sleep, which lead to the next refresh.
C21_RunWriteFailureNotFatal ==
  /\ [][exitCode' # exitCode => pc \in {"searching", "login"}]_vars
  /\ [][(pc = "decide" /\ (runs' # runs \/ currentRunId' # currentRunId))
          => (pc' = "pre_delay" /\ currentRunId' \in {NULL, runsCreated + 1})]_vars
  /\ [][(pc = "pre_delay" /\ pc' # pc) => pc' = "sw_loop"]_vars
  /\ [][(pc = "searching" /\ pc' \in {"sw_loop", "post_sweep"} /\ ~balanceLow')
          => (RunPostKey \in DOMAIN posts' /\ total' = total + 1)]_vars
  /\ [][(pc = "post_sweep" /\ pc' # pc)
          => /\ pc' = "after_save"
             /\ savedAccounts' = writeAccounts(accounts')
             /\ accounts'[accountIndex + 1].remaining_free # NULL
             /\ (runs' = runs \/ (currentRunId # NULL /\ runs'[currentRunId].updates = 1))]_vars
  /\ [][(pc = "after_save" /\ ~stopRequested /\ pc' # pc)
          => pc' \in {"closing", "inter_sleep"}]_vars
  /\ [][(pc \in {"inter_sleep", "login"} /\ ~stopRequested /\ pc' \notin {pc, "exit"})
          => pc' = "refresh"]_vars

\* The second iteration after two failures: the Run row of the first sweep
\* was never updated, insertRun threw before the second sweep, and still
\* the second sweep ran, its post is in the table, the registry is saved
\* and the exit code is 0.
C21_Witness ==
  /\ pc = "after_save"
  /\ currentRunId = NULL
  /\ runsCreated = 1
  /\ runs[1].updates = 0
  /\ RunPostKey \in DOMAIN posts
  /\ savedAccounts = writeAccounts(accounts)
  /\ exitCode = 0
  /\ ~stopRequested

----------------------------------------------------------------------------
(***************************************************************************)
(* SpecChannel: a sequence of chat metadata upserts for the chat of one    *)
(* supergroup, built from chat, supergroup and full-info objects as the    *)
(* update handler and ensureChatMeta build them.                           *)
(***************************************************************************)

MetaNumbers == {NULL} \cup (1 .. MaxMeta)
MetaFlags == {<<>>, <<FALSE>>, <<TRUE>>}

ChatObjects ==
  { [id |-> toChatIdFromSupergroup(1), supergroup_id |-> sg, member_count |-> m,
     direct_messages_chat_id |-> i, linked_chat_id |-> i] :
    sg \in {NULL, 1}, m \in MetaNumbers, i \in MetaNumbers }

Supergroups ==
  { [id |-> 1, boost_level |-> n, date |-> n, has_direct_messages_group |-> b,
     has_linked_chat |-> b, member_count |-> m, gift_count |-> n, linked_chat_id |-> i,
     outgoing_paid_message_star_count |-> n] :
    n \in MetaNumbers, m \in MetaNumbers, b \in MetaFlags, i \in MetaNumbers }

FullInfos ==
  { [member_count |-> m, direct_messages_chat_id |-> i, gift_count |-> n,
     linked_chat_id |-> i, outgoing_paid_message_star_count |-> n] :
    n \in MetaNumbers, m \in MetaNumbers, i \in MetaNumbers }

ChannelQuiet ==
  UNCHANGED <<posts, metrics, lastMetrics, albumKeeper, allowedMessages, targets,
              chatUsernames, getChatCalls, driverVars, lastMissing, seenMax, historyVars,
              pickVars, sweepVars, procVars, sessionVars, mainVars>>

ApplyChat ==
  /\ \E chat \in ChatObjects : channels' = applyChatToDb(channels, chat)
  /\ ChannelQuiet

ApplySupergroup ==
  /\ \E supergroup \in Supergroups : channels' = applySupergroupToDb(channels, supergroup)
  /\ ChannelQuiet

ApplyFullInfo ==
  /\ \E fullInfo \in FullInfos : channels' = applyFullInfoToDb(channels, 1, fullInfo)
  /\ ChannelQuiet

NextChannel ==
  \/ ApplyChat
  \/ ApplySupergroup
  \/ ApplyFullInfo

SpecChannel == InitData /\ [][NextChannel]_vars

\* C17: in the chat metadata row of a chat no numeric column ever goes from
\* a known value to null or to a smaller number.
C17_NoFieldRegresses ==
  [][\A c \in DOMAIN channels : \A f \in ChannelFields :
       channels[c][f] # NULL
         => (c \in DOMAIN channels' /\ channels'[c][f] >= channels[c][f])]_vars

----------------------------------------------------------------------------
(***************************************************************************)
(* SpecTargets: the update handler against the set of discovered targets.  *)
(* The search returns the posts of one supergroup chat; the session        *)
(* delivers events of every shape (counters only, full post, chat,         *)
(* supergroup, supergroup full info) about that chat and about a           *)
(* supergroup chat no page holds.                                          *)
(***************************************************************************)

TargetSupergroups == {1}     \* the supergroup whose posts the search returns
StraySupergroups == {2}      \* a supergroup no sweep returns
EventSupergroups == TargetSupergroups \cup StraySupergroups

ChatsOf(supergroups) == { toChatIdFromSupergroup(sg) : sg \in supergroups }

TargetInteractions == { info \in DataInteractions : info.view_count = 1 /\ info.forward_count = NULL }
TargetPages == Pages(Messages(ChatsOf(TargetSupergroups), {AlbumSize + 1}, TargetInteractions))

Handles == {<<>>, <<"handle">>}
MemberCounts == {1, 2}

NoMeta ==
  [chat_id |-> NULL, message_interaction_info |-> <<>>, message |-> <<>>,
   supergroup_id |-> NULL, chat |-> <<>>, supergroup |-> <<>>, supergroup_full_info |-> <<>>]

ChatEvents ==
  { [NoMeta EXCEPT !.chat =
       << [id |-> toChatIdFromSupergroup(sg), supergroup_id |-> sg, member_count |-> m,
           direct_messages_chat_id |-> NULL, linked_chat_id |-> NULL, username |-> u] >>] :
    sg \in EventSupergroups, m \in MemberCounts, u \in Handles }

SupergroupEvents ==
  { [NoMeta EXCEPT !.supergroup =
       << [id |-> sg, boost_level |-> NULL, date |-> NULL, has_direct_messages_group |-> <<>>,
           has_linked_chat |-> <<>>, member_count |-> m, gift_count |-> NULL,
           linked_chat_id |-> NULL, outgoing_paid_message_star_count |-> NULL,
           username |-> u] >>] :
    sg \in EventSupergroups, m \in MemberCounts, u \in Handles }

FullInfoEvents ==
  { [NoMeta EXCEPT !.supergroup_id = sg,
                   !.supergroup_full_info =
       << [member_count |-> m, direct_messages_chat_id |-> NULL, gift_count |-> NULL,
           linked_chat_id |-> NULL, outgoing_paid_message_star_count |-> NULL] >>] :
    sg \in EventSupergroups, m \in MemberCounts }

TargetUpdates ==
  Updates(ChatsOf(EventSupergroups), {AlbumSize + 1}, TargetInteractions)
    \cup ChatEvents \cup SupergroupEvents \cup FullInfoEvents

NextTargets ==
  \/ StartRun
  \/ IssueSearch
  \/ SweepPage(TargetPages, FetchOutcomes)
  \/ EndSweep
  \/ DeliverUpdate(TargetUpdates)
  \/ StopSignal

SpecTargets == InitData /\ [][NextTargets]_vars

\* C40: between the batches of posts, found_messages_count of every chat
\* metadata row is the number of post rows persisted for the chat.
C40_FoundCountIsPostCount ==
  \A c \in DOMAIN channels :
    channels[c].found_messages_count = CountPosts(posts, c)

\* C37: once the stop signal has been received shuttingDown is set, and a
\* step of the update handler changes no table and no in-memory map, while
\* the handler is still registered with the live client.
C37_NoEventAfterStop ==
  /\ [](stopRequested => shuttingDown)
  /\ [][(stopRequested /\ lastStep'.kind = "update")
          => UNCHANGED <<posts, metrics, lastMetrics, albumKeeper, allowedMessages,
                         targets, channels, chatUsernames, getChatCalls>>]_vars

\* After the stop signal the registered handler received an event of a
\* target chat that it would have stored before the signal.
C37_Witness ==
  /\ stopRequested
  /\ handlerOn
  /\ session = "live"
  /\ lastStep.kind = "update"
  /\ lastStep.key[1] \in targets
  /\ \E update \in TargetUpdates :
       /\ UpdateKey(update) = lastStep.key
       /\ \/ HandleUpdate(Store, update, allowedMessages, targets, FALSE, currentRunId) # Store
          \/ HandleMeta(channels, update, targets, FALSE) # channels

\* The step is the delivery of an event about a chat that is not a target.
StrayEventStep == lastStep'.kind = "update" /\ lastStep'.key[1] \notin targets

\* C28: an event whose related chat id, taken directly or derived from a
\* supergroup id, is not among the discovered targets writes to no table,
\* whatever its shape; a chat id enters the set of targets only in the step
\* of a sweep page that holds a post of that chat.
C28_StrayEventWritesNothing ==
  /\ [][StrayEventStep => UNCHANGED <<posts, metrics, channels, runs>>]_vars
  /\ [][\A c \in targets' \ targets :
            lastStep'.kind = "page" /\ \E key \in surfaced' : key[1] = c]_vars

\* A metadata event about the stray supergroup was delivered after the
\* sweep discovered its target and stored a post of it.
C28_Witness ==
  /\ lastStep.kind = "update"
  /\ lastStep.key[1] \in ChatsOf(StraySupergroups)
  /\ lastStep.key[2] = NULL
  /\ targets = ChatsOf(TargetSupergroups)
  /\ posts # <<>>
  /\ ChatsOf(StraySupergroups) \cap DOMAIN channels = {}

----------------------------------------------------------------------------
(***************************************************************************)
(* SpecDetach: main with the events of the sessions.  The session of the   *)
(* active account emits events while it is open, to the handler when one   *)
(* is subscribed and to nobody after detachUpdates(); a session a failed   *)
(* close() left open goes on emitting.                                     *)
(***************************************************************************)

\* The pages carry one post of the target supergroup chat; the events are
\* chat events about that chat, which write its row of public_search.
DetachPosts == Messages(ChatsOf(TargetSupergroups), {AlbumSize + 1}, RunInteractions)
DetachResponses ==
  { res \in SearchResponses({ <<m>> : m \in DetachPosts }, {"x1"}) : res.has_next_offset }
DetachUpdates ==
  { e \in ChatEvents : /\ e.chat[1].id \in ChatsOf(TargetSupergroups)
                       /\ e.chat[1].member_count = 1
                       /\ e.chat[1].username = <<>> }

\* Two accounts, the second free-ready.
DetachRegistries == { r \in RunRegistries : Len(r) = 2 }

InitDetach == InitRegistry(DetachRegistries)

\* An event on a stream that has no subscribed handler.
DropUpdate(updates) ==
  /\ (session = "live" /\ ~handlerOn) \/ orphans.live > 0
  /\ \E update \in updates : lastStep' = [kind |-> "dropped", key |-> UpdateKey(update)]
  /\ evalLog' = {}
  /\ UNCHANGED <<dataVars, flagVars, runVars, pc, localVars, starCount, callVars, procVars,
                 sessionVars, accountIndex, switchTo, quotaVars, savedAccounts, trail,
                 accounts, now, pickIO>>

NextDetach ==
  \/ LoginDone
  \/ LoginFails
  \/ RefreshQuota(LimitsResponses, BalanceResponses)
  \/ DecideSwitchFree
  \/ DecideWaitFree
  \/ DecideSwitchStar
  \/ DecideSweep
  \/ PreDelayOver
  \/ SweepLoop
  \/ PageDelayOver
  \/ SearchPage(DetachResponses, {"handle"})
  \/ SearchBalanceLow
  \/ SearchFails
  \/ PostSweep(LimitsResponses)
  \/ AfterSaveStop
  \/ AfterSaveSwitchFree
  \/ AfterSaveSleep
  \/ SleepOver
  \/ CloseDone
  \/ DirsDone
  \/ Exit
  \/ FinalClose
  \/ TimerFires
  \/ StopSignal
  \/ DeliverUpdate(DetachUpdates)
  \/ DropUpdate(DetachUpdates)

SpecDetach == InitDetach /\ [][NextDetach]_vars

\* Where main is after a detachUpdates() and before the next
\* attachUpdateProcessor.
AfterDetach == {"closing", "mkdirs", "final_close", "done"}

\* C29: after detachUpdates() no event of the session's stream writes to a
\* table or changes an in-memory cache, and attachUpdateProcessor runs only
\* when no handler is subscribed, so at most one handler is subscribed.
C29_DetachedHandlerSilent ==
  /\ [][(lastStep'.kind \in {"update", "dropped"}
          /\ (pc \in AfterDetach \/ lastStep'.kind = "dropped"))
        => UNCHANGED <<posts, metrics, channels, runs, lastMetrics, albumKeeper,
                       allowedMessages, targets, chatUsernames>>]_vars
  /\ [](pc \in AfterDetach => ~handlerOn)
  /\ [][(handlerOn' /\ pc' # pc) => (handlerOn = (pc # "mkdirs"))]_vars

\* An event arrived while the old session was being closed, after the
\* sweep stored the post the event is about.
C29_Witness ==
  /\ lastStep.kind = "dropped"
  /\ pc = "closing"
  /\ session = "live"
  /\ lastStep.key[1] \in targets
  /\ lastStep.key[1] \in DOMAIN channels
  /\ posts # <<>>

====
